---- MODULE Spec2Model ----
(***************************************************************************)
(* A model of the wallet container of turtlecoin-wallet-backend-js:        *)
(* SubWallets (src/lib/SubWallets.ts), the Transaction type and the        *)
(* daemon object (src/lib/ConventionalDaemon.ts): its block counts, its    *)
(* getWalletSyncData and its getCancelledTransactions.                     *)
(* SubWallet (one subwallet) and the WalletBackend main loop are not part  *)
(* of the source tree; they are modelled from spec.md and marked so.       *)
(***************************************************************************)
EXTENDS Integers, Sequences, FiniteSets, TLC

VARIABLES wallet, pre, call, reapply, daemon, backend, network, emitted, applied

\* The WalletBackend around the wallet container: its daemon object, its own
\* fields, the network it talks to, the sync and desync events it emitted, and
\* the block it applied last.
loopVars == <<daemon, backend, network, emitted, applied>>

vars == <<wallet, pre, call, reapply, daemon, backend, network, emitted, applied>>

(***************************************************************************)
(* Bounds of the model.                                                    *)
(***************************************************************************)
\* Block heights run over 1..MaxHeight.
MaxHeight == 2

\* A daemon answer to getTransactionsStatus names at most MaxUnknown hashes,
\* each once.
MaxUnknown == 2

\* A block carries at most MaxBlockTxs transactions of the wallet.
MaxBlockTxs == 2

\* The outputs of a transaction have the indexes 0..MaxOutputIndex.
MaxOutputIndex == 1

(***************************************************************************)
(* Program constants.                                                      *)
(***************************************************************************)
\* config.unlockTimeAsBlockHeightThreshold (spec.md, section 6).
UNLOCK_TIME_AS_BLOCK_HEIGHT_THRESHOLD == 500000000

Heights == 1..MaxHeight

Hashes == {"h1", "h2", "h3"}

KeyA == "pkA"

KeyB == "pkB"

KeyImages == {"k1", "k2"}

\* The key derivations and output indexes key images are asked for.
Derivations == {"d1", "d2"}

OutputIndexes == 0..MaxOutputIndex

\* '0'.repeat(64), the key image of every input of a view wallet.
ZeroKeyImage == "0000000000000000000000000000000000000000000000000000000000000000"

\* The value of an absent optional argument or JSON field.
Undefined == "undefined"

\* An optional argument of sequence type: left out, or given.
Omitted == <<>>

Given(x) == <<x>>

(***************************************************************************)
(* Sequences, lodash and Map helpers.                                      *)
(***************************************************************************)
Last(s) == s[Len(s)]

Range(s) == {s[i] : i \in 1..Len(s)}

\* _.remove(array, predicate): the array without the elements the predicate
\* holds of, the others in their order.
Remove(array, predicate(_)) == SelectSeq(array, LAMBDA x : ~predicate(x))

\* Array.prototype.some
Some(array, predicate(_)) == \E i \in 1..Len(array) : predicate(array[i])

\* A Map is a sequence of <<key, value>> entries in insertion order, keys unique.
MapHas(m, k) == \E i \in 1..Len(m) : m[i][1] = k

MapGet(m, k) == IF MapHas(m, k) THEN m[CHOOSE i \in 1..Len(m) : m[i][1] = k][2] ELSE Undefined

\* Map.prototype.set: an existing key keeps its place and takes the new value.
MapSet(m, k, v) == IF MapHas(m, k) THEN [i \in 1..Len(m) |-> IF m[i][1] = k THEN <<k, v>> ELSE m[i]] ELSE Append(m, <<k, v>>)

RECURSIVE MapFromEntries(_)
\* new Map(entries)
MapFromEntries(entries) == IF entries = <<>> THEN <<>> ELSE MapSet(MapFromEntries(SubSeq(entries, 1, Len(entries) - 1)), Last(entries)[1], Last(entries)[2])

\* The Map with every value replaced by f(value): what a for..of loop calling a
\* mutating method on every value leaves.
MapEach(m, f(_)) == [i \in 1..Len(m) |-> <<m[i][1], f(m[i][2])>>]

(***************************************************************************)
(* The values the model draws its inputs from.                             *)
(***************************************************************************)
TxFee(hash) == IF hash = "h1" THEN 10 ELSE 0

TxIsCoinbase(hash) == hash = "h3"

TxPaymentID(hash) == IF hash = "h1" THEN "pid1" ELSE ""

\* Transaction.transfers, a Map of public spend key to signed amount.
TxTransfers(hash) == CASE hash = "h1" -> << <<KeyA, 5>> >>
                       [] hash = "h2" -> << <<KeyA, -3>>, <<KeyB, 3>> >>
                       [] OTHER -> << <<KeyB, 7>> >>

\* A Transaction (the constructor's fields) with the given hash, confirmed in
\* the block at blockHeight.
Tx(hash, blockHeight) == [transfers |-> TxTransfers(hash), hash |-> hash, fee |-> TxFee(hash), blockHeight |-> blockHeight, timestamp |-> 100 + blockHeight, paymentID |-> TxPaymentID(hash), unlockTime |-> 0, isCoinbaseTransaction |-> TxIsCoinbase(hash)]

\* The transactions addTransaction is called with.
Txs == {Tx(h, b) : h \in Hashes, b \in Heights}

\* A transaction the wallet sent and that no block has confirmed yet.
LockedTx(hash) == [transfers |-> TxTransfers(hash), hash |-> hash, fee |-> TxFee(hash), blockHeight |-> 0, timestamp |-> 0, paymentID |-> TxPaymentID(hash), unlockTime |-> 0, isCoinbaseTransaction |-> FALSE]

InputAmount(keyImage) == IF keyImage = "k1" THEN 1 ELSE 2

\* k1 unlocks at height 2; k2 unlocks at a Unix time.
InputUnlockTime(keyImage) == IF keyImage = "k1" THEN 2 ELSE UNLOCK_TIME_AS_BLOCK_HEIGHT_THRESHOLD + 5

InputParent(keyImage) == IF keyImage = "k1" THEN "h1" ELSE "h2"

\* The values the clock takes: before and after k2 unlocks.
Nows == {UNLOCK_TIME_AS_BLOCK_HEIGHT_THRESHOLD, UNLOCK_TIME_AS_BLOCK_HEIGHT_THRESHOLD + 10}

\* A TransactionInput (the constructor's fields): the output with key image
\* keyImage, received in the block at blockHeight.
Input(keyImage, blockHeight, spendHeight) == [keyImage |-> keyImage, amount |-> InputAmount(keyImage), blockHeight |-> blockHeight, transactionPublicKey |-> "txpub", transactionIndex |-> 0, globalOutputIndex |-> 0, key |-> "outkey", spendHeight |-> spendHeight, unlockTime |-> InputUnlockTime(keyImage), parentTransactionHash |-> InputParent(keyImage)]

\* An UnconfirmedInput: change of a locked send.
Unconfirmed(amount, key, parentTransactionHash) == [amount |-> amount, key |-> key, parentTransactionHash |-> parentTransactionHash]

(***************************************************************************)
(* SubWallet: one subwallet (spec.md, sections 3 and 4.C).                 *)
(***************************************************************************)
\* new SubWallet(address, scanHeight, timestamp, publicSpendKey, privateSpendKey)
NewSubWallet(address, scanHeight, timestamp, publicSpendKey, privateSpendKey) == [address |-> address, publicSpendKey |-> publicSpendKey, privateSpendKey |-> privateSpendKey, scanHeight |-> scanHeight, creationTimestamp |-> timestamp, inputs |-> <<>>, lockedInputs |-> <<>>, keyImages |-> {}, primaryAddress |-> TRUE]

\* SubWallet.fromJSON: the keyImages array becomes a set.
SubWallet_fromJSON(json) == [address |-> json.address, publicSpendKey |-> json.publicSpendKey, privateSpendKey |-> json.privateSpendKey, scanHeight |-> json.scanHeight, creationTimestamp |-> json.creationTimestamp, inputs |-> json.inputs, lockedInputs |-> json.lockedInputs, keyImages |-> Range(json.keyImages), primaryAddress |-> json.isPrimaryAddress]

\* storeInput(input, isViewWallet)
SubWallet_storeTransactionInput(sub, input, isViewWallet) == [sub EXCEPT !.inputs = Append(@, input), !.keyImages = IF isViewWallet THEN @ ELSE @ \cup {input.keyImage}]

\* markInputAsSpent(keyImage, spendHeight): fails when no input has the key image.
SubWallet_markInputAsSpent(sub, keyImage, spendHeight) ==
  IF ~Some(sub.inputs, LAMBDA x : x.keyImage = keyImage)
  THEN [threw |-> TRUE, sub |-> sub]
  ELSE LET i == CHOOSE i \in 1..Len(sub.inputs) : sub.inputs[i].keyImage = keyImage /\ \A j \in 1..(i - 1) : sub.inputs[j].keyImage # keyImage
       IN [threw |-> FALSE, sub |-> [sub EXCEPT !.inputs[i].spendHeight = spendHeight]]

\* isInputUnlocked(unlockTime, currentHeight); now is nowSeconds().
isInputUnlocked(unlockTime, currentHeight, now) == IF unlockTime < UNLOCK_TIME_AS_BLOCK_HEIGHT_THRESHOLD THEN currentHeight >= unlockTime ELSE now >= unlockTime

RECURSIVE SubWallet_sumInputs(_, _, _, _)
\* The loop of SubWallet.getBalance over inputs[1..n]: <<unlocked, locked>>.
SubWallet_sumInputs(inputs, n, currentHeight, now) ==
  IF n = 0 THEN <<0, 0>>
  ELSE LET acc == SubWallet_sumInputs(inputs, n - 1, currentHeight, now)
           input == inputs[n]
       IN IF input.spendHeight # 0 THEN acc
          ELSE IF isInputUnlocked(input.unlockTime, currentHeight, now) THEN <<acc[1] + input.amount, acc[2]>>
          ELSE <<acc[1], acc[2] + input.amount>>

\* getBalance(currentHeight) -> (unlocked, locked)
SubWallet_getBalance(sub, currentHeight, now) == SubWallet_sumInputs(sub.inputs, Len(sub.inputs), currentHeight, now)

\* removeForkedTransactions(forkHeight)
SubWallet_removeForkedTransactions(sub, forkHeight) ==
  LET kept == Remove(sub.inputs, LAMBDA input : input.blockHeight >= forkHeight)
  IN [sub EXCEPT !.inputs = [i \in 1..Len(kept) |-> IF kept[i].spendHeight >= forkHeight THEN [kept[i] EXCEPT !.spendHeight = 0] ELSE kept[i]]]

\* removeCancelledTransaction(hash)
SubWallet_removeCancelledTransaction(sub, transactionHash) == [sub EXCEPT !.lockedInputs = Remove(@, LAMBDA input : input.parentTransactionHash = transactionHash)]

\* hasKeyImage(k)
SubWallet_hasKeyImage(sub, keyImage) == keyImage \in sub.keyImages

\* isPrimaryAddress(): whether this subwallet was the first created.
SubWallet_isPrimaryAddress(sub) == sub.primaryAddress

RECURSIVE SetToSeq(_)
\* The elements of a set as an array, [...set].
SetToSeq(set) == IF set = {} THEN <<>> ELSE LET x == CHOOSE x \in set : TRUE IN <<x>> \o SetToSeq(set \ {x})

\* SubWallet.toJSON
SubWallet_toJSON(sub) == [address |-> sub.address, publicSpendKey |-> sub.publicSpendKey, privateSpendKey |-> sub.privateSpendKey, scanHeight |-> sub.scanHeight, creationTimestamp |-> sub.creationTimestamp, inputs |-> sub.inputs, lockedInputs |-> sub.lockedInputs, keyImages |-> SetToSeq(sub.keyImages), isPrimaryAddress |-> sub.primaryAddress]

\* CryptoOps.generateKeyImage: the key image of the output at outputIndex of
\* the transaction with the derivation, for the owner of the spend keys.
generateKeyImage(publicSpendKey, privateSpendKey, derivation, outputIndex) ==
  CASE privateSpendKey = "spendA" /\ derivation = "d1" /\ outputIndex = 0 -> "k1"
    [] privateSpendKey = "spendB" /\ derivation = "d2" /\ outputIndex = 0 -> "k2"
    [] OTHER -> "k3"

\* getTxInputKeyImage(derivation, outputIndex)
SubWallet_getTxInputKeyImage(sub, derivation, outputIndex) == generateKeyImage(sub.publicSpendKey, sub.privateSpendKey, derivation, outputIndex)

(***************************************************************************)
(* Transaction (src/lib/ConventionalDaemon.ts, the Types part).            *)
(***************************************************************************)
\* Transaction.fromJSON that copies the named fields only, not the JSON: the
\* flag isCoinbaseTransaction is never set and reads as false.
Transaction_fromJSON_namedOnly(json) == [transfers |-> MapFromEntries([i \in 1..Len(json.transfers) |-> <<json.transfers[i].publicKey, json.transfers[i].amount>>]), hash |-> json.hash, fee |-> json.fee, blockHeight |-> json.blockHeight, timestamp |-> json.timestamp, paymentID |-> json.paymentID, unlockTime |-> json.unlockTime, isCoinbaseTransaction |-> FALSE, isCoinbaseTransactions |-> json.isCoinbaseTransaction]

\* Transaction.fromJSON: Object.assign(transaction, json, {...}). Every field
\* of the JSON is copied; the transfers array is replaced by a Map, and the
\* flag is stored once more under the name isCoinbaseTransactions.
Transaction_fromJSON(json) == [transfers |-> MapFromEntries([i \in 1..Len(json.transfers) |-> <<json.transfers[i].publicKey, json.transfers[i].amount>>]), hash |-> json.hash, fee |-> json.fee, blockHeight |-> json.blockHeight, timestamp |-> json.timestamp, paymentID |-> json.paymentID, unlockTime |-> json.unlockTime, isCoinbaseTransaction |-> json.isCoinbaseTransaction, isCoinbaseTransactions |-> json.isCoinbaseTransaction]

(***************************************************************************)
(* SubWallets (src/lib/SubWallets.ts). An operation that can throw returns *)
(* [threw, wallet]: whether it threw and the object it leaves.             *)
(***************************************************************************)
\* The messages of the errors thrown.
SubwalletNotFound == "Subwallet not found!"

\* The failure of SubWallet.markInputAsSpent: no input has the key image.
InputNotFound == "Input not found"

NoError == ""

NoPrimaryAddress == "Wallet has no primary address!"

\* CryptoUtils.decodeAddress(address).publicSpendKey
decodeAddress(address) == IF address = "addrA" THEN KeyA ELSE KeyB

\* new SubWallets(address, scanHeight, newWallet, privateViewKey, privateSpendKey?)
NewSubWallets(address, scanHeight, newWallet, privateViewKey, privateSpendKey) ==
  LET timestamp == IF newWallet THEN 1000 ELSE 0
      publicSpendKey == decodeAddress(address)
  IN [isViewWallet |-> privateSpendKey = Undefined,
      publicSpendKeys |-> <<publicSpendKey>>,
      subWallets |-> << <<publicSpendKey, NewSubWallet(address, scanHeight, timestamp, publicSpendKey, privateSpendKey)>> >>,
      transactions |-> <<>>,
      lockedTransactions |-> <<>>,
      privateViewKey |-> privateViewKey,
      transactionPrivateKeys |-> <<>>]

\* SubWallets.fromJSON: Object.assign(subWallets, json, {...}). The subWallet
\* and txPrivateKeys arrays of the JSON stay on the object as they were read.
fromJSON(json) ==
  [subWallet |-> json.subWallet,
   txPrivateKeys |-> json.txPrivateKeys,
   isViewWallet |-> json.isViewWallet,
   publicSpendKeys |-> json.publicSpendKeys,
   subWallets |-> MapFromEntries([i \in 1..Len(json.subWallet) |-> <<json.subWallet[i].publicSpendKey, SubWallet_fromJSON(json.subWallet[i])>>]),
   transactions |-> [i \in 1..Len(json.transactions) |-> Transaction_fromJSON(json.transactions[i])],
   lockedTransactions |-> [i \in 1..Len(json.lockedTransactions) |-> Transaction_fromJSON(json.lockedTransactions[i])],
   privateViewKey |-> json.privateViewKey,
   transactionPrivateKeys |-> MapFromEntries([i \in 1..Len(json.txPrivateKeys) |-> <<json.txPrivateKeys[i].transactionHash, json.txPrivateKeys[i].txPrivateKey>>])]

RECURSIVE getPrimarySubWalletLoop(_, _)
\* The for loop of getPrimarySubWallet over the subwallets from the n-th on.
getPrimarySubWalletLoop(w, n) ==
  IF n > Len(w.subWallets) THEN [threw |-> TRUE, error |-> NoPrimaryAddress, ret |-> <<>>]
  ELSE IF SubWallet_isPrimaryAddress(w.subWallets[n][2]) THEN [threw |-> FALSE, error |-> NoError, ret |-> w.subWallets[n][2]]
  ELSE getPrimarySubWalletLoop(w, n + 1)

\* getPrimarySubWallet that takes the first subwallet of the Map.
getPrimarySubWallet_firstOfMap(w) ==
  IF Len(w.subWallets) = 0 THEN [threw |-> TRUE, error |-> NoPrimaryAddress, ret |-> <<>>]
  ELSE [threw |-> FALSE, error |-> NoError, ret |-> w.subWallets[1][2]]

\* getPrimarySubWallet()
getPrimarySubWallet(w) == getPrimarySubWalletLoop(w, 1)

\* getLockedTransactionHashes()
getLockedTransactionHashes(w) == [i \in 1..Len(w.lockedTransactions) |-> w.lockedTransactions[i].hash]

\* addTransaction without the check for an already confirmed hash.
addTransaction_unchecked(w, transaction) ==
  [threw |-> FALSE, wallet |-> [w EXCEPT !.lockedTransactions = Remove(@, LAMBDA tx : tx.hash = transaction.hash), !.transactions = Append(@, transaction)]]

\* addTransaction that leaves the locked transaction in place.
addTransaction_keepLocked(w, transaction) ==
  IF Some(w.transactions, LAMBDA tx : tx.hash = transaction.hash)
  THEN [threw |-> TRUE, wallet |-> w]
  ELSE [threw |-> FALSE, wallet |-> [w EXCEPT !.transactions = Append(@, transaction)]]

\* addTransaction that pushes before it checks.
addTransaction_pushFirst(w, transaction) ==
  LET pushed == [w EXCEPT !.lockedTransactions = Remove(@, LAMBDA tx : tx.hash = transaction.hash), !.transactions = Append(@, transaction)]
  IN [threw |-> Some(w.transactions, LAMBDA tx : tx.hash = transaction.hash), wallet |-> pushed]

\* addTransaction that empties lockedTransactions.
addTransaction_clearLocked(w, transaction) ==
  LET unlocked == [w EXCEPT !.lockedTransactions = <<>>]
  IN IF Some(unlocked.transactions, LAMBDA tx : tx.hash = transaction.hash)
     THEN [threw |-> TRUE, wallet |-> unlocked]
     ELSE [threw |-> FALSE, wallet |-> [unlocked EXCEPT !.transactions = Append(@, transaction)]]

\* addTransaction(transaction)
addTransaction(w, transaction) ==
  LET unlocked == [w EXCEPT !.lockedTransactions = Remove(@, LAMBDA tx : tx.hash = transaction.hash)]
  IN IF Some(unlocked.transactions, LAMBDA tx : tx.hash = transaction.hash)
     THEN [threw |-> TRUE, wallet |-> unlocked]
     ELSE [threw |-> FALSE, wallet |-> [unlocked EXCEPT !.transactions = Append(@, transaction)]]

\* storeTransactionInput that ignores an unknown public spend key.
storeTransactionInput_silent(w, publicSpendKey, input) ==
  IF ~MapHas(w.subWallets, publicSpendKey)
  THEN [threw |-> FALSE, error |-> NoError, wallet |-> w]
  ELSE [threw |-> FALSE, error |-> NoError, wallet |-> [w EXCEPT !.subWallets = MapSet(@, publicSpendKey, SubWallet_storeTransactionInput(MapGet(@, publicSpendKey), input, w.isViewWallet))]]

\* storeTransactionInput(publicSpendKey, input)
storeTransactionInput(w, publicSpendKey, input) ==
  IF ~MapHas(w.subWallets, publicSpendKey)
  THEN [threw |-> TRUE, error |-> SubwalletNotFound, wallet |-> w]
  ELSE [threw |-> FALSE, error |-> NoError, wallet |-> [w EXCEPT !.subWallets = MapSet(@, publicSpendKey, SubWallet_storeTransactionInput(MapGet(@, publicSpendKey), input, w.isViewWallet))]]

\* markInputAsSpent(publicSpendKey, keyImage, spendHeight)
markInputAsSpent(w, publicSpendKey, keyImage, spendHeight) ==
  IF ~MapHas(w.subWallets, publicSpendKey)
  THEN [threw |-> TRUE, error |-> SubwalletNotFound, wallet |-> w]
  ELSE LET r == SubWallet_markInputAsSpent(MapGet(w.subWallets, publicSpendKey), keyImage, spendHeight)
       IN [threw |-> r.threw, error |-> IF r.threw THEN InputNotFound ELSE NoError, wallet |-> [w EXCEPT !.subWallets = MapSet(@, publicSpendKey, r.sub)]]

\* removeCancelledTransaction that does not call the subwallets.
removeCancelledTransaction_lockedOnly(w, transactionHash) ==
  [w EXCEPT !.lockedTransactions = Remove(@, LAMBDA tx : tx.hash = transactionHash)]

\* removeCancelledTransaction(transactionHash)
removeCancelledTransaction(w, transactionHash) ==
  [w EXCEPT !.lockedTransactions = Remove(@, LAMBDA tx : tx.hash = transactionHash),
            !.subWallets = MapEach(@, LAMBDA subWallet : SubWallet_removeCancelledTransaction(subWallet, transactionHash))]

\* removeForkedTransactions that does not call the subwallets.
removeForkedTransactions_transactionsOnly(w, forkHeight) ==
  [w EXCEPT !.transactions = Remove(@, LAMBDA tx : tx.blockHeight >= forkHeight)]

\* removeForkedTransactions that filters lockedTransactions as well.
removeForkedTransactions_dropLocked(w, forkHeight) ==
  [w EXCEPT !.transactions = Remove(@, LAMBDA tx : tx.blockHeight >= forkHeight),
            !.lockedTransactions = Remove(@, LAMBDA tx : tx.blockHeight >= forkHeight),
            !.subWallets = MapEach(@, LAMBDA subWallet : SubWallet_removeForkedTransactions(subWallet, forkHeight))]

\* removeForkedTransactions that keeps the block at forkHeight.
removeForkedTransactions_strict(w, forkHeight) ==
  [w EXCEPT !.transactions = Remove(@, LAMBDA tx : tx.blockHeight > forkHeight),
            !.subWallets = MapEach(@, LAMBDA subWallet : SubWallet_removeForkedTransactions(subWallet, forkHeight))]

\* removeForkedTransactions that removes only the block at forkHeight.
removeForkedTransactions_onlyAt(w, forkHeight) ==
  [w EXCEPT !.transactions = Remove(@, LAMBDA tx : tx.blockHeight = forkHeight),
            !.subWallets = MapEach(@, LAMBDA subWallet : SubWallet_removeForkedTransactions(subWallet, forkHeight))]

\* removeForkedTransactions(forkHeight)
removeForkedTransactions(w, forkHeight) ==
  [w EXCEPT !.transactions = Remove(@, LAMBDA tx : tx.blockHeight >= forkHeight),
            !.subWallets = MapEach(@, LAMBDA subWallet : SubWallet_removeForkedTransactions(subWallet, forkHeight))]

RECURSIVE getKeyImageOwnerLoop(_, _, _)
\* The for loop of getKeyImageOwner over the subwallets from the n-th on, in
\* the order of the Map.
getKeyImageOwnerLoop(w, keyImage, n) ==
  IF n > Len(w.subWallets) THEN <<FALSE, "">>
  ELSE IF SubWallet_hasKeyImage(w.subWallets[n][2], keyImage) THEN <<TRUE, w.subWallets[n][1]>>
  ELSE getKeyImageOwnerLoop(w, keyImage, n + 1)

\* getKeyImageOwner that searches the subwallets of a view wallet as well.
getKeyImageOwner_noViewCheck(w, keyImage) == getKeyImageOwnerLoop(w, keyImage, 1)

\* getKeyImageOwner(keyImage): [found, publicSpendKey]
getKeyImageOwner(w, keyImage) == IF w.isViewWallet THEN <<FALSE, "">> ELSE getKeyImageOwnerLoop(w, keyImage, 1)

\* getTxInputKeyImage that asks the subwallet in a view wallet as well.
getTxInputKeyImage_noViewCheck(w, publicSpendKey, derivation, outputIndex) ==
  IF ~MapHas(w.subWallets, publicSpendKey)
  THEN [threw |-> TRUE, error |-> SubwalletNotFound, ret |-> <<>>]
  ELSE [threw |-> FALSE, error |-> NoError, ret |-> SubWallet_getTxInputKeyImage(MapGet(w.subWallets, publicSpendKey), derivation, outputIndex)]

\* getTxInputKeyImage(publicSpendKey, derivation, outputIndex)
getTxInputKeyImage(w, publicSpendKey, derivation, outputIndex) ==
  IF ~MapHas(w.subWallets, publicSpendKey)
  THEN [threw |-> TRUE, error |-> SubwalletNotFound, ret |-> <<>>]
  ELSE IF w.isViewWallet
  THEN [threw |-> FALSE, error |-> NoError, ret |-> ZeroKeyImage]
  ELSE [threw |-> FALSE, error |-> NoError, ret |-> SubWallet_getTxInputKeyImage(MapGet(w.subWallets, publicSpendKey), derivation, outputIndex)]

RECURSIVE getBalanceLoop_unlockedOnly(_, _, _, _, _)
\* The loop of getBalance without lockedBalance += locked.
getBalanceLoop_unlockedOnly(w, currentHeight, subWalletsToTakeFrom, n, now) ==
  IF n = 0 THEN [threw |-> FALSE, error |-> NoError, ret |-> <<0, 0>>]
  ELSE LET acc == getBalanceLoop_unlockedOnly(w, currentHeight, subWalletsToTakeFrom, n - 1, now)
           publicSpendKey == subWalletsToTakeFrom[n]
       IN IF acc.threw THEN acc
          ELSE IF ~MapHas(w.subWallets, publicSpendKey) THEN [threw |-> TRUE, error |-> SubwalletNotFound, ret |-> <<0, 0>>]
          ELSE LET balance == SubWallet_getBalance(MapGet(w.subWallets, publicSpendKey), currentHeight, now)
               IN [threw |-> FALSE, error |-> NoError, ret |-> <<acc.ret[1] + balance[1], acc.ret[2]>>]

RECURSIVE getBalanceLoop(_, _, _, _, _)
\* The for loop of getBalance over subWalletsToTakeFrom[1..n]: [threw, ret],
\* ret the running <<unlockedBalance, lockedBalance>>.
getBalanceLoop(w, currentHeight, subWalletsToTakeFrom, n, now) ==
  IF n = 0 THEN [threw |-> FALSE, error |-> NoError, ret |-> <<0, 0>>]
  ELSE LET acc == getBalanceLoop(w, currentHeight, subWalletsToTakeFrom, n - 1, now)
           publicSpendKey == subWalletsToTakeFrom[n]
       IN IF acc.threw THEN acc
          ELSE IF ~MapHas(w.subWallets, publicSpendKey) THEN [threw |-> TRUE, error |-> SubwalletNotFound, ret |-> <<0, 0>>]
          ELSE LET balance == SubWallet_getBalance(MapGet(w.subWallets, publicSpendKey), currentHeight, now)
               IN [threw |-> FALSE, error |-> NoError, ret |-> <<acc.ret[1] + balance[1], acc.ret[2] + balance[2]>>]

\* getBalance that takes from the first public spend key when no list is given.
getBalance_firstKeyByDefault(w, currentHeight, subWalletsToTakeFrom, now) ==
  LET from == IF subWalletsToTakeFrom = Omitted THEN <<w.publicSpendKeys[1]>> ELSE subWalletsToTakeFrom[1]
  IN getBalanceLoop(w, currentHeight, from, Len(from), now)

\* getBalance that always takes from every public spend key.
getBalance_allKeys(w, currentHeight, subWalletsToTakeFrom, now) ==
  getBalanceLoop(w, currentHeight, w.publicSpendKeys, Len(w.publicSpendKeys), now)

\* getBalance(currentHeight, subWalletsToTakeFrom?)
getBalance(w, currentHeight, subWalletsToTakeFrom, now) ==
  LET from == IF subWalletsToTakeFrom = Omitted THEN w.publicSpendKeys ELSE subWalletsToTakeFrom[1]
  IN getBalanceLoop(w, currentHeight, from, Len(from), now)

(***************************************************************************)
(* ConventionalDaemon.getCancelledTransactions and the main loop's         *)
(* reconciliation of locked transactions (spec.md, section 4.G).           *)
(***************************************************************************)
\* data is the daemon's answer to getTransactionsStatus.
\* getCancelledTransactions that reports nothing as cancelled.
getCancelledTransactions_none(data) == <<>>

\* getCancelledTransactions(transactionHashes): data.transactionsUnknown || []
getCancelledTransactions(data) == IF data.transactionsUnknown = Omitted THEN <<>> ELSE data.transactionsUnknown[1]

RECURSIVE removeCancelledTransactions(_, _, _)
\* The tick's loop: removeCancelledTransaction for cancelled[1..n], in order.
removeCancelledTransactions(w, cancelled, n) == IF n = 0 THEN w ELSE removeCancelledTransaction(removeCancelledTransactions(w, cancelled, n - 1), cancelled[n])

\* One tick's reconciliation, given the daemon's answer: a failed request
\* changes nothing.
checkLockedTransactions(w, answer) ==
  IF answer.failed THEN w
  ELSE LET cancelled == getCancelledTransactions(answer.data)
       IN removeCancelledTransactions(w, cancelled, Len(cancelled))

(***************************************************************************)
(* Wallet files the model loads, in the persisted JSON shape.              *)
(***************************************************************************)
TransactionJSON(tx) == [transfers |-> [i \in 1..Len(tx.transfers) |-> [publicKey |-> tx.transfers[i][1], amount |-> tx.transfers[i][2]]], hash |-> tx.hash, fee |-> tx.fee, blockHeight |-> tx.blockHeight, timestamp |-> tx.timestamp, paymentID |-> tx.paymentID, unlockTime |-> tx.unlockTime, isCoinbaseTransaction |-> tx.isCoinbaseTransaction]

SubWalletJSON(address, publicSpendKey, privateSpendKey, inputs, lockedInputs, keyImages, isPrimaryAddress) == [isPrimaryAddress |-> isPrimaryAddress, address |-> address, publicSpendKey |-> publicSpendKey, privateSpendKey |-> privateSpendKey, scanHeight |-> 0, creationTimestamp |-> 0, inputs |-> inputs, lockedInputs |-> lockedInputs, keyImages |-> keyImages]

\* txPrivateKeysToVector(transactionPrivateKeys)
txPrivateKeysToVector(txPrivateKeys) == [i \in 1..Len(txPrivateKeys) |-> [transactionHash |-> txPrivateKeys[i][1], txPrivateKey |-> txPrivateKeys[i][2]]]

\* SubWallets.toJSON
toJSON(w) ==
  [publicSpendKeys |-> w.publicSpendKeys,
   subWallet |-> [i \in 1..Len(w.subWallets) |-> SubWallet_toJSON(w.subWallets[i][2])],
   transactions |-> [i \in 1..Len(w.transactions) |-> TransactionJSON(w.transactions[i])],
   lockedTransactions |-> [i \in 1..Len(w.lockedTransactions) |-> TransactionJSON(w.lockedTransactions[i])],
   privateViewKey |-> w.privateViewKey,
   isViewWallet |-> w.isViewWallet,
   txPrivateKeys |-> txPrivateKeysToVector(w.transactionPrivateKeys)]

\* Two subwallets, three locked sends with their change, nothing confirmed.
WalletFileA ==
  [publicSpendKeys |-> <<KeyA, KeyB>>,
   subWallet |-> << SubWalletJSON("addrA", KeyA, "spendA", << Input("k1", 1, 2) >>, << Unconfirmed(5, "c1", "h1"), Unconfirmed(7, "c2", "h2") >>, << "k1" >>, TRUE),
                    SubWalletJSON("addrB", KeyB, "spendB", << Input("k2", 2, 0) >>, << Unconfirmed(9, "c3", "h2"), Unconfirmed(11, "c4", "h3") >>, << "k2" >>, FALSE) >>,
   transactions |-> <<>>,
   lockedTransactions |-> << TransactionJSON(LockedTx("h1")), TransactionJSON(LockedTx("h2")), TransactionJSON(LockedTx("h3")) >>,
   privateViewKey |-> "view",
   isViewWallet |-> FALSE,
   txPrivateKeys |-> << [transactionHash |-> "h1", txPrivateKey |-> "txkey1"] >>]

\* Two subwallets, two confirmed transactions, one locked send.
WalletFileB ==
  [publicSpendKeys |-> <<KeyA, KeyB>>,
   subWallet |-> << SubWalletJSON("addrA", KeyA, "spendA", <<>>, << Unconfirmed(5, "c1", "h3") >>, <<>>, TRUE),
                    SubWalletJSON("addrB", KeyB, "spendB", << Input("k2", 1, 2) >>, <<>>, << "k2" >>, FALSE) >>,
   transactions |-> << TransactionJSON(Tx("h1", 1)), TransactionJSON(Tx("h2", 2)) >>,
   lockedTransactions |-> << TransactionJSON(LockedTx("h3")) >>,
   privateViewKey |-> "view",
   isViewWallet |-> FALSE,
   txPrivateKeys |-> <<>>]

\* A view wallet holding one input, its key image set as the data model has
\* it: the key image of every input is in keyImages.
WalletFileV ==
  [publicSpendKeys |-> <<KeyA>>,
   subWallet |-> << SubWalletJSON("addrA", KeyA, Undefined, << [Input("k1", 1, 0) EXCEPT !.keyImage = ZeroKeyImage] >>, <<>>, << ZeroKeyImage >>, TRUE) >>,
   transactions |-> << TransactionJSON(Tx("h3", 1)) >>,
   lockedTransactions |-> <<>>,
   privateViewKey |-> "view",
   isViewWallet |-> TRUE,
   txPrivateKeys |-> <<>>]

\* A wallet file whose only subwallet is not the primary one.
WalletFileN ==
  [publicSpendKeys |-> <<KeyB>>,
   subWallet |-> << SubWalletJSON("addrB", KeyB, "spendB", <<>>, <<>>, <<>>, FALSE) >>,
   transactions |-> <<>>,
   lockedTransactions |-> <<>>,
   privateViewKey |-> "view",
   isViewWallet |-> FALSE,
   txPrivateKeys |-> <<>>]

\* The wallets a run starts from: created, imported as a view wallet, or loaded.
InitialWallets == {NewSubWallets("addrA", 0, TRUE, "view", "spendA"), NewSubWallets("addrA", 0, FALSE, "view", Undefined), fromJSON(WalletFileA), fromJSON(WalletFileB)}

(***************************************************************************)
(* The state machine. wallet is the SubWallets object; call is the last    *)
(* call made on it ([op, args, threw, ret]) and pre the object before it.  *)
(***************************************************************************)
(***************************************************************************)
(* Numbers. A JavaScript number is a double; the model keeps it as a count *)
(* of halves, so that 10.5 is a value, and with a mantissa of MantissaBits *)
(* bits where a double has 53. The 64 bits of an amount are AmountBits     *)
(* bits here, TLC's integers having 32: 2 ** 64 is 2 ^ AmountBits, and as  *)
(* with doubles the number just below it cannot be represented.            *)
(***************************************************************************)
MantissaBits == 6

AmountBits == 8

\* The integer x, and x + 0.5.
Num(x) == 2 * x

NumAndHalf(x) == 2 * x + 1

Number_isInteger(number) == number % 2 = 0

RECURSIVE Ulp(_, _)
\* The spacing of the doubles around a number, from unit up.
Ulp(number, unit) == IF number \div unit < 2 ^ MantissaBits THEN unit ELSE Ulp(number, 2 * unit)

\* The double nearest to an exact non-negative value, ties to even.
ToDouble(exact) ==
  LET unit == Ulp(exact, 1)
      q == exact \div unit
      r == exact % unit
  IN IF 2 * r < unit THEN q * unit
     ELSE IF 2 * r > unit THEN (q + 1) * unit
     ELSE IF q % 2 = 0 THEN q * unit ELSE (q + 1) * unit

\* a + b on doubles.
Plus(a, b) == IF a + b >= 0 THEN ToDouble(a + b) ELSE a + b

\* 2 ** 64
TwoPow64 == Num(2 ^ AmountBits)

(***************************************************************************)
(* ValidateParameters.ts. Config, WalletError and CnUtils are not part of  *)
(* the source tree: the configured values, the error object and the        *)
(* decoding of an address are modelled from spec.md.                       *)
(***************************************************************************)
\* config.minimumFee, and the [min, max] mixin allowed at a height.
minimumFee == 10

getMixinLimitsByHeight(height) == IF height < 2 THEN <<0, 3>> ELSE <<1, 2>>

\* new WalletError(errorCode, customMessage = '')
WalletError(errorCode, customMessage) == [errorCode |-> errorCode, customMessage |-> customMessage]

SUCCESS == WalletError("SUCCESS", "")

\* The addresses the helpers are called with are "addrA" and "addrB" of the
\* wallet's subwallets, "addrX" of somebody else, the integrated "intA" and
\* "intB", and "bad" and "badLong" that are no address, the second as long as
\* an integrated address.
\* address.length === config.integratedAddressLength
IsIntegratedLength(address) == address \in {"intA", "intB", "badLong"}

\* CryptoUtils.decodeAddress(address): throws for what is no address.
CryptoUtils_decodeAddress(address) ==
  CASE address = "addrA" -> [threw |-> FALSE, publicSpendKey |-> KeyA, paymentId |-> ""]
    [] address = "addrB" -> [threw |-> FALSE, publicSpendKey |-> KeyB, paymentId |-> ""]
    [] address = "addrX" -> [threw |-> FALSE, publicSpendKey |-> "pkX", paymentId |-> ""]
    [] address = "intA" -> [threw |-> FALSE, publicSpendKey |-> KeyA, paymentId |-> "pidA"]
    [] address = "intB" -> [threw |-> FALSE, publicSpendKey |-> KeyB, paymentId |-> "pidB"]
    [] OTHER -> [threw |-> TRUE, publicSpendKey |-> "", paymentId |-> ""]

\* The result of a helper: the WalletError it returned, or the error it threw.
Returned(error) == [threw |-> FALSE, error |-> NoError, ret |-> error]

Threw(message) == [threw |-> TRUE, error |-> message, ret |-> SUCCESS]

InvalidAddress == "Error: Invalid address"

RECURSIVE validateAddressesFrom(_, _, _)
\* The loop of validateAddresses from addresses[n] on.
validateAddressesFrom(addresses, n, integratedAddressesAllowed) ==
  IF n > Len(addresses) THEN WalletError("SUCCESS", "")
  ELSE LET parsed == CryptoUtils_decodeAddress(addresses[n])
       IN IF parsed.threw THEN WalletError("ADDRESS_NOT_VALID", InvalidAddress)
          ELSE IF parsed.paymentId # "" /\ ~integratedAddressesAllowed THEN WalletError("ADDRESS_IS_INTEGRATED", "")
          ELSE validateAddressesFrom(addresses, n + 1, integratedAddressesAllowed)

validateAddresses(addresses, integratedAddressesAllowed) == Returned(validateAddressesFrom(addresses, 1, integratedAddressesAllowed))

RECURSIVE validateDestinationsFrom_noIntegrated(_, _)
\* validateDestinations that does not allow integrated addresses.
validateDestinationsFrom_noIntegrated(destinations, n) ==
  IF n > Len(destinations) THEN validateAddresses([i \in 1..Len(destinations) |-> destinations[i][1]], FALSE)
  ELSE LET amount == destinations[n][2]
       IN IF amount = 0 THEN Returned(WalletError("AMOUNT_IS_ZERO", ""))
          ELSE IF amount < 0 THEN Returned(WalletError("NEGATIVE_VALUE_GIVEN", ""))
          ELSE IF ~Number_isInteger(amount) THEN Returned(WalletError("NON_INTEGER_GIVEN", ""))
          ELSE validateDestinationsFrom_noIntegrated(destinations, n + 1)

RECURSIVE validateDestinationsFrom(_, _)
\* The loop of validateDestinations over the amounts, then the addresses.
validateDestinationsFrom(destinations, n) ==
  IF n > Len(destinations) THEN validateAddresses([i \in 1..Len(destinations) |-> destinations[i][1]], TRUE)
  ELSE LET amount == destinations[n][2]
       IN IF amount = 0 THEN Returned(WalletError("AMOUNT_IS_ZERO", ""))
          ELSE IF amount < 0 THEN Returned(WalletError("NEGATIVE_VALUE_GIVEN", ""))
          ELSE IF ~Number_isInteger(amount) THEN Returned(WalletError("NON_INTEGER_GIVEN", ""))
          ELSE validateDestinationsFrom(destinations, n + 1)

validateDestinations(destinations) ==
  IF Len(destinations) = 0 THEN Returned(WalletError("NO_DESTINATIONS_GIVEN", ""))
  ELSE validateDestinationsFrom(destinations, 1)

RECURSIVE validateIntegratedAddressesFrom(_, _, _)
\* The loop of validateIntegratedAddresses from destinations[n] on; the
\* address is decoded outside any try.
validateIntegratedAddressesFrom(destinations, n, paymentID) ==
  IF n > Len(destinations) THEN Returned(SUCCESS)
  ELSE IF ~IsIntegratedLength(destinations[n][1]) THEN validateIntegratedAddressesFrom(destinations, n + 1, paymentID)
  ELSE LET parsedAddress == CryptoUtils_decodeAddress(destinations[n][1])
       IN IF parsedAddress.threw THEN Threw(InvalidAddress)
          ELSE IF paymentID = "" THEN validateIntegratedAddressesFrom(destinations, n + 1, parsedAddress.paymentId)
          ELSE IF paymentID # parsedAddress.paymentId THEN Returned(WalletError("CONFLICTING_PAYMENT_IDS", ""))
          ELSE validateIntegratedAddressesFrom(destinations, n + 1, paymentID)

validateIntegratedAddresses(destinations, paymentID) == validateIntegratedAddressesFrom(destinations, 1, paymentID)

RECURSIVE validateOurAddressesFrom(_, _, _)
validateOurAddressesFrom(addresses, n, w) ==
  IF n > Len(addresses) THEN Returned(SUCCESS)
  ELSE LET parsedAddress == CryptoUtils_decodeAddress(addresses[n])
       IN IF parsedAddress.threw THEN Threw(InvalidAddress)
          ELSE IF parsedAddress.publicSpendKey \notin Range(w.publicSpendKeys)
          THEN Returned(WalletError("ADDRESS_NOT_IN_WALLET", "The address given (" \o addresses[n] \o ") does not exist in the wallet container, but it is required to exist for this operation."))
          ELSE validateOurAddressesFrom(addresses, n + 1, w)

validateOurAddresses(addresses, w) ==
  LET error == validateAddresses(addresses, FALSE)
  IN IF error.ret # SUCCESS THEN error ELSE validateOurAddressesFrom(addresses, 1, w)

RECURSIVE sumBy(_, _)
\* _.sumBy(destinations, ([destination, amount]) => amount) over the first n.
sumBy(destinations, n) ==
  IF n = 0 THEN 0
  ELSE IF n = 1 THEN destinations[1][2]
  ELSE Plus(sumBy(destinations, n - 1), destinations[n][2])

\* validateAmount(destinations, fee, subWalletsToTakeFrom, subWallets,
\* currentHeight). NON_INTEGER_GIVEN is returned when Number.isInteger(fee)
\* holds; getBalance throws for a key that is no subwallet.
validateAmount(destinations, fee, subWalletsToTakeFrom, w, currentHeight, now) ==
  IF fee < Num(minimumFee) THEN Returned(WalletError("FEE_TOO_SMALL", ""))
  ELSE IF Number_isInteger(fee) THEN Returned(WalletError("NON_INTEGER_GIVEN", ""))
  ELSE LET balance == getBalance(w, currentHeight, Given(subWalletsToTakeFrom), now)
           totalAmount == Plus(sumBy(destinations, Len(destinations)), fee)
       IN IF balance.threw THEN Threw(balance.error)
          ELSE IF totalAmount > Num(balance.ret[1]) THEN Returned(WalletError("NOT_ENOUGH_BALANCE", ""))
          ELSE IF totalAmount >= TwoPow64 THEN Returned(WalletError("WILL_OVERFLOW", ""))
          ELSE Returned(SUCCESS)

validateMixin(mixin, height) ==
  LET limits == getMixinLimitsByHeight(height)
  IN IF mixin < 0 THEN Returned(WalletError("NEGATIVE_VALUE_GIVEN", ""))
     ELSE IF ~Number_isInteger(mixin) THEN Returned(WalletError("NON_INTEGER_GIVEN", ""))
     ELSE IF mixin < Num(limits[1])
     THEN Returned(WalletError("MIXIN_TOO_SMALL", "The mixin value given (" \o ToString(mixin \div 2) \o ") is lower than the minimum mixin allowed (" \o ToString(limits[1]) \o ")"))
     ELSE IF mixin > Num(limits[2])
     THEN Returned(WalletError("MIXIN_TOO_BIG", "The mixin value given (" \o ToString(mixin \div 2) \o ") is greater than the maximum mixin allowed (" \o ToString(limits[2]) \o ")"))
     ELSE Returned(SUCCESS)

\* The payment IDs: none, one of 64 letters and digits, a short one, and one of
\* 64 characters that are not all letters or digits.
PaymentIDs == {"", "pidA", "pidB", "short", "64 with dashes"}

PaymentIDLength(paymentID) == CASE paymentID = "" -> 0 [] paymentID = "short" -> 5 [] OTHER -> 64

\* paymentID.match(new RegExp(/[a-zA-Z0-9]{64}/)) !== null
MatchesHex64(paymentID) == paymentID \in {"pidA", "pidB"}

validatePaymentID(paymentID) ==
  IF paymentID = "" THEN Returned(SUCCESS)
  ELSE IF PaymentIDLength(paymentID) # 64 THEN Returned(WalletError("PAYMENT_ID_WRONG_LENGTH", ""))
  ELSE IF ~MatchesHex64(paymentID) THEN Returned(WalletError("PAYMENT_ID_INVALID", ""))
  ELSE Returned(SUCCESS)

\* new ConventionalDaemon(daemonHost, daemonPort): the counts start at 0, the
\* fee at none.
NewConventionalDaemon == [localDaemonBlockCount |-> 0, networkBlockCount |-> 0, peerCount |-> 0, lastKnownHashrate |-> 0, feeAddress |-> "", feeAmount |-> 0]

\* SynchronizationStatus of a wallet that has applied no block.
NewSynchronizationStatus == [lastKnownBlockHashes |-> <<>>, lastKnownBlockHeight |-> 0]

\* A WalletBackend before start(): not synced, nothing fetched. fetches are the
\* getWalletSyncData requests awaiting their answer.
NewWalletBackend == [started |-> FALSE, synced |-> FALSE, blocksToProcess |-> <<>>, synchronizationStatus |-> NewSynchronizationStatus, fetches |-> {}, scanCoinbase |-> FALSE]

\* No sync or desync event was emitted yet. name, w and n are the last event,
\* was and now the synced flag before and after it, prev the event before it.
NoEvent == [name |-> "none", w |-> 0, n |-> 0, was |-> FALSE, now |-> FALSE, prev |-> "none"]

\* No block was applied yet. height is the height of the block applied last,
\* forkHeight the height of a fork handled since, -1 when there is none.
NoBlock == [height |-> -1, forkHeight |-> -1]

\* The network before any block beyond the genesis block: reorg is the height
\* from which the chain was reorganised, 0 when it never was.
NewNetwork == [network_height |-> 0, offline |-> FALSE, reorg |-> 0]

\* The wallet container alone: a backend that is never started.
NotStarted == daemon = NewConventionalDaemon /\ backend = NewWalletBackend /\ network = NewNetwork /\ emitted = NoEvent /\ applied = NoBlock

NoCall == [op |-> "none", args |-> <<>>, threw |-> FALSE, ret |-> <<>>]

\* reapply follows one block through being applied, forked away and applied
\* again: the block, the confirmed list before and after its first application,
\* and whether each application threw.
NoReapply == [phase |-> "none", height |-> 0, block |-> <<>>, before |-> <<>>, first |-> <<>>, threw |-> FALSE, rethrew |-> FALSE]

Init == wallet \in InitialWallets /\ pre = wallet /\ call = NoCall /\ reapply = NoReapply /\ NotStarted

AddTransaction ==
  \E transaction \in Txs :
    LET r == addTransaction(wallet, transaction)
    IN /\ wallet' = r.wallet
       /\ pre' = wallet
       /\ call' = [op |-> "addTransaction", args |-> <<transaction>>, threw |-> r.threw, ret |-> <<>>]
       /\ UNCHANGED <<reapply, loopVars>>

RemoveCancelledTransaction ==
  \E transactionHash \in Hashes :
    /\ wallet' = removeCancelledTransaction(wallet, transactionHash)
    /\ pre' = wallet
    /\ call' = [op |-> "removeCancelledTransaction", args |-> <<transactionHash>>, threw |-> FALSE, ret |-> <<>>]
    /\ UNCHANGED <<reapply, loopVars>>

RemoveForkedTransactions ==
  \E forkHeight \in 0..(MaxHeight + 1) :
    /\ wallet' = removeForkedTransactions(wallet, forkHeight)
    /\ pre' = wallet
    /\ call' = [op |-> "removeForkedTransactions", args |-> <<forkHeight>>, threw |-> FALSE, ret |-> <<>>]
    /\ UNCHANGED <<reapply, loopVars>>

\* The subwallet an output belongs to: the one whose public spend key the
\* output's key underives to.
Owner(keyImage) == IF keyImage = "k2" THEN KeyB ELSE KeyA

\* The caller stores each output it recognises once, in the subwallet that owns
\* it, under the key image getTxInputKeyImage gives: all zeroes in a view wallet.
StoreTransactionInput ==
  \E keyImage \in KeyImages, blockHeight \in Heights :
    LET input == [Input(keyImage, blockHeight, 0) EXCEPT !.keyImage = IF wallet.isViewWallet THEN ZeroKeyImage ELSE @]
        r == storeTransactionInput(wallet, Owner(keyImage), input)
    IN /\ \A i \in 1..Len(wallet.subWallets) : ~Some(wallet.subWallets[i][2].inputs, LAMBDA x : x.parentTransactionHash = input.parentTransactionHash)
       /\ wallet' = r.wallet
       /\ pre' = wallet
       /\ call' = [op |-> "storeTransactionInput", args |-> <<Owner(keyImage), input>>, threw |-> r.threw, error |-> r.error, ret |-> <<>>]
       /\ UNCHANGED <<reapply, loopVars>>

MarkInputAsSpent ==
  \E publicSpendKey \in {KeyA, KeyB}, keyImage \in KeyImages, spendHeight \in Heights :
    LET r == markInputAsSpent(wallet, publicSpendKey, keyImage, spendHeight)
    IN /\ wallet' = r.wallet
       /\ pre' = wallet
       /\ call' = [op |-> "markInputAsSpent", args |-> <<publicSpendKey, keyImage, spendHeight>>, threw |-> r.threw, error |-> r.error, ret |-> <<>>]
       /\ UNCHANGED <<reapply, loopVars>>

\* The subsets getBalance is asked about: none given, or a list of keys.
Subsets == {Omitted, Given(<<>>), Given(<<KeyA>>), Given(<<KeyB>>), Given(<<KeyA, KeyB>>), Given(<<KeyB, KeyA>>), Given(<<KeyA, KeyA>>)}

GetBalance ==
  \E currentHeight \in Heights, subWalletsToTakeFrom \in Subsets, now \in Nows :
    LET r == getBalance(wallet, currentHeight, subWalletsToTakeFrom, now)
    IN /\ wallet' = wallet
       /\ pre' = wallet
       /\ call' = [op |-> "getBalance", args |-> <<currentHeight, subWalletsToTakeFrom, now>>, threw |-> r.threw, error |-> r.error, ret |-> r.ret]
       /\ UNCHANGED <<reapply, loopVars>>

GetTxInputKeyImage ==
  \E publicSpendKey \in {KeyA, KeyB}, derivation \in Derivations, outputIndex \in OutputIndexes :
    LET r == getTxInputKeyImage(wallet, publicSpendKey, derivation, outputIndex)
    IN /\ wallet' = wallet
       /\ pre' = wallet
       /\ call' = [op |-> "getTxInputKeyImage", args |-> <<publicSpendKey, derivation, outputIndex>>, threw |-> r.threw, error |-> r.error, ret |-> r.ret]
       /\ UNCHANGED <<reapply, loopVars>>

\* Spend recognition for one input of a block's transaction and the main
\* loop's use of it: the input's key image is marked spent at the block's
\* height in the subwallet getKeyImageOwner names, if it names one.
markSpentInput(w, keyImage, blockHeight) ==
  LET owner == getKeyImageOwner(w, keyImage)
  IN IF owner[1] THEN markInputAsSpent(w, owner[2], keyImage, blockHeight)
     ELSE [threw |-> FALSE, error |-> NoError, wallet |-> w]

\* The key images a daemon's block may carry.
SpentKeyImages == KeyImages \cup {ZeroKeyImage}

GetPrimarySubWallet ==
  LET r == getPrimarySubWallet(wallet)
  IN /\ wallet' = wallet
     /\ pre' = wallet
     /\ call' = [op |-> "getPrimarySubWallet", args |-> <<>>, threw |-> r.threw, error |-> r.error, ret |-> r.ret]
     /\ UNCHANGED <<reapply, loopVars>>

\* The wallet is saved and loaded again: SubWallets.fromJSON(wallet.toJSON()).
Reload ==
  /\ wallet' = fromJSON(toJSON(wallet))
  /\ pre' = wallet
  /\ call' = [op |-> "fromJSON", args |-> <<toJSON(wallet)>>, threw |-> FALSE, ret |-> <<>>]
  /\ UNCHANGED <<reapply, loopVars>>

GetKeyImageOwner ==
  \E keyImage \in SpentKeyImages :
    /\ wallet' = wallet
    /\ pre' = wallet
    /\ call' = [op |-> "getKeyImageOwner", args |-> <<keyImage>>, threw |-> FALSE, ret |-> getKeyImageOwner(wallet, keyImage)]
    /\ UNCHANGED <<reapply, loopVars>>

MarkSpentInput ==
  \E keyImage \in SpentKeyImages, blockHeight \in Heights :
    LET r == markSpentInput(wallet, keyImage, blockHeight)
    IN /\ wallet' = r.wallet
       /\ pre' = wallet
       /\ call' = [op |-> "markSpentInput", args |-> <<keyImage, blockHeight>>, threw |-> r.threw, error |-> r.error, ret |-> <<>>]
       /\ UNCHANGED <<reapply, loopVars>>

RECURSIVE SeqsUpTo(_, _)
\* The sequences over S of length at most n that repeat no element.
SeqsUpTo(S, n) == IF n = 0 THEN {<<>>} ELSE LET shorter == SeqsUpTo(S, n - 1) IN shorter \cup {t \in {Append(s, x) : s \in shorter, x \in S} : \A i, j \in 1..Len(t) : t[i] = t[j] => i = j}

\* What the daemon may answer to getTransactionsStatus: nothing (the request
\* fails), an object without transactionsUnknown, or one with a list of hashes.
Answers == {[failed |-> TRUE, data |-> [transactionsUnknown |-> Omitted]], [failed |-> FALSE, data |-> [transactionsUnknown |-> Omitted]]} \cup {[failed |-> FALSE, data |-> [transactionsUnknown |-> Given(unknown)]] : unknown \in SeqsUpTo(Hashes, MaxUnknown)}

\* The reconciliation step of one main loop tick.
CheckLockedTransactions ==
  \E answer \in Answers :
    /\ wallet' = checkLockedTransactions(wallet, answer)
    /\ pre' = wallet
    /\ call' = [op |-> "checkLockedTransactions", args |-> <<getLockedTransactionHashes(wallet), answer>>, threw |-> FALSE, ret |-> <<>>]
    /\ UNCHANGED <<reapply, loopVars>>

\* The bookkeeping of confirmed and locked transactions.
Next == AddTransaction \/ RemoveCancelledTransaction \/ RemoveForkedTransactions

Spec == Init /\ [][Next]_vars

\* The reconciliation of locked transactions against the daemon, between
\* blocks that confirm transactions.
NextLocked == AddTransaction \/ CheckLockedTransactions

SpecLocked == Init /\ [][NextLocked]_vars

\* The inputs of the subwallets and the balance.
NextInputs == StoreTransactionInput \/ MarkInputAsSpent \/ RemoveForkedTransactions \/ GetBalance \/ GetTxInputKeyImage

SpecInputs == Init /\ [][NextInputs]_vars

\* Key images and their owners, from created and loaded wallets.
InitKeys == wallet \in InitialWallets \cup {fromJSON(WalletFileV)} /\ pre = wallet /\ call = NoCall /\ reapply = NoReapply /\ NotStarted

NextKeys == StoreTransactionInput \/ MarkSpentInput \/ RemoveForkedTransactions \/ GetKeyImageOwner

SpecKeys == InitKeys /\ [][NextKeys]_vars

\* Saving and loading, from created and loaded wallets.
InitFile == wallet \in InitialWallets \cup {fromJSON(WalletFileV), fromJSON(WalletFileN)} /\ pre = wallet /\ call = NoCall /\ reapply = NoReapply /\ NotStarted

NextFile == AddTransaction \/ StoreTransactionInput \/ Reload \/ GetPrimarySubWallet

SpecFile == InitFile /\ [][NextFile]_vars

(***************************************************************************)
(* A block applied, forked away and applied again.                         *)
(***************************************************************************)
RECURSIVE addTransactions(_, _, _)
\* The main loop applying a block's transactions block[1..n] in order; a throw
\* ends the application.
addTransactions(w, block, n) ==
  IF n = 0 THEN [threw |-> FALSE, wallet |-> w]
  ELSE LET done == addTransactions(w, block, n - 1)
       IN IF done.threw THEN done ELSE addTransaction(done.wallet, block[n])

\* The blocks: up to MaxBlockTxs transactions of distinct hashes at one height.
Blocks == {[i \in 1..Len(hashes) |-> Tx(hashes[i], height)] : hashes \in SeqsUpTo(Hashes, MaxBlockTxs) \ {<<>>}, height \in Heights}

InitReapply == wallet \in InitialWallets /\ pre = wallet /\ call = NoCall /\ reapply = [NoReapply EXCEPT !.phase = "setup"] /\ NotStarted

\* What happened to the wallet before the block arrives.
EarlierAddTransaction == reapply.phase = "setup" /\ AddTransaction

EarlierRemoveForkedTransactions == reapply.phase = "setup" /\ RemoveForkedTransactions

ApplyBlock ==
  \E block \in Blocks :
    LET r == addTransactions(wallet, block, Len(block))
    IN /\ reapply.phase = "setup"
       /\ wallet' = r.wallet
       /\ pre' = wallet
       /\ call' = [op |-> "addTransactions", args |-> <<block>>, threw |-> r.threw, ret |-> <<>>]
       /\ reapply' = [phase |-> "applied", height |-> block[1].blockHeight, block |-> block, before |-> wallet.transactions, first |-> r.wallet.transactions, threw |-> r.threw, rethrew |-> FALSE]
       /\ UNCHANGED loopVars

ForkBlock ==
  /\ reapply.phase = "applied"
  /\ wallet' = removeForkedTransactions(wallet, reapply.height)
  /\ pre' = wallet
  /\ call' = [op |-> "removeForkedTransactions", args |-> <<reapply.height>>, threw |-> FALSE, ret |-> <<>>]
  /\ reapply' = [reapply EXCEPT !.phase = "forked"]
  /\ UNCHANGED loopVars

ReapplyBlock ==
  LET r == addTransactions(wallet, reapply.block, Len(reapply.block))
  IN /\ reapply.phase = "forked"
     /\ wallet' = r.wallet
     /\ pre' = wallet
     /\ call' = [op |-> "addTransactions", args |-> <<reapply.block>>, threw |-> r.threw, ret |-> <<>>]
     /\ reapply' = [reapply EXCEPT !.phase = "reapplied", !.rethrew = r.threw]
     /\ UNCHANGED loopVars

NextReapply == EarlierAddTransaction \/ EarlierRemoveForkedTransactions \/ ApplyBlock \/ ForkBlock \/ ReapplyBlock

SpecReapply == InitReapply /\ [][NextReapply]_vars

(***************************************************************************)
(* The WalletBackend main loop (spec.md, sections 4.E, 4.G and 5) over the *)
(* ConventionalDaemon object. A tick is followed step by step, split where *)
(* it awaits the daemon; stop() may be called in between.                  *)
(***************************************************************************)
\* The chain of the network: blocks at the heights 0..network_height - 1, the
\* block at a height found by its hash.
BlockHash(height) == CASE height = 0 -> "b0" [] height = 1 -> "b1" [] height = 2 -> "b2" [] height = 3 -> "b3" [] OTHER -> "b4"

\* The blocks that replace them when the chain is reorganised.
AltBlockHash(height) == CASE height = 0 -> "c0" [] height = 1 -> "c1" [] height = 2 -> "c2" [] height = 3 -> "c3" [] OTHER -> "c4"

BlockHeight(hash) == CASE hash \in {"b0", "c0"} -> 0 [] hash \in {"b1", "c1"} -> 1 [] hash \in {"b2", "c2"} -> 2 [] hash \in {"b3", "c3"} -> 3 [] OTHER -> 4

\* The transactions of the wallet the block at a height carries.
BlockTransactions(height) == CASE height = 1 -> <<Tx("h1", 1)>> [] height = 2 -> <<Tx("h2", 2)>> [] height = 3 -> <<Tx("h3", 3)>> [] OTHER -> <<>>

AltBlockTransactions(height) == CASE height = 1 -> <<Tx("h2", 1)>> [] height = 2 -> <<Tx("h1", 2)>> [] height = 3 -> <<Tx("h3", 3)>> [] OTHER -> <<>>

\* The block at a height is one of the reorganised chain.
Reorganised(net, height) == net.reorg > 0 /\ height >= net.reorg

\* The hash of the block the daemon has at a height.
ChainHash(net, height) == IF Reorganised(net, height) THEN AltBlockHash(height) ELSE BlockHash(height)

Block(net, height) ==
  [blockHeight |-> height,
   blockHash |-> ChainHash(net, height),
   previousBlockHash |-> IF height = 0 THEN "" ELSE ChainHash(net, height - 1),
   transactions |-> IF Reorganised(net, height) THEN AltBlockTransactions(height) ELSE BlockTransactions(height)]

\* info.network_height runs over 0..MaxHeight + 1: one more than the height of
\* the top block.
NetworkHeights == 0..(MaxHeight + 1)

\* config.blockTargetTime (spec.md, Configuration).
blockTargetTime == 30

\* What this.daemon.info() answers: the fields updateDaemonInfo reads, or a
\* rejected request.
Info(height, network_height, incoming, difficulty) == [failed |-> FALSE, height |-> height, network_height |-> network_height, incoming_connections_count |-> incoming, outgoing_connections_count |-> 1, difficulty |-> difficulty]

NoInfo == [failed |-> TRUE, height |-> 0, network_height |-> 0, incoming_connections_count |-> 0, outgoing_connections_count |-> 0, difficulty |-> 0]

\* this.daemon.info(): fails when the daemon cannot be reached.
info(net) == IF net.offline THEN NoInfo ELSE Info(net.network_height, net.network_height, 1, 2 * blockTargetTime)

\* updateDaemonInfo that forgets what it knew when the request fails.
updateDaemonInfo_resetOnFailure(d, answer) ==
  IF answer.failed THEN [d EXCEPT !.localDaemonBlockCount = 0, !.networkBlockCount = 0, !.peerCount = 0, !.lastKnownHashrate = 0]
  ELSE [d EXCEPT !.localDaemonBlockCount = answer.height,
                 !.networkBlockCount = IF answer.network_height # 0 THEN answer.network_height - 1 ELSE answer.network_height,
                 !.peerCount = answer.incoming_connections_count + answer.outgoing_connections_count,
                 !.lastKnownHashrate = answer.difficulty \div blockTargetTime]

\* updateDaemonInfo that takes one off the network height whatever it is.
updateDaemonInfo_alwaysDecrement(d, answer) ==
  IF answer.failed THEN d
  ELSE [d EXCEPT !.localDaemonBlockCount = answer.height, !.networkBlockCount = answer.network_height - 1,
                 !.peerCount = answer.incoming_connections_count + answer.outgoing_connections_count,
                 !.lastKnownHashrate = answer.difficulty \div blockTargetTime]

\* ConventionalDaemon.updateDaemonInfo with the answer of this.daemon.info().
\* The difficulties of the model are multiples of the block target time.
updateDaemonInfo(d, answer) ==
  IF answer.failed THEN d
  ELSE [d EXCEPT !.localDaemonBlockCount = answer.height,
                 !.networkBlockCount = IF answer.network_height # 0 THEN answer.network_height - 1 ELSE answer.network_height,
                 !.peerCount = answer.incoming_connections_count + answer.outgoing_connections_count,
                 !.lastKnownHashrate = answer.difficulty \div blockTargetTime]

\* ConventionalDaemon.getNetworkBlockCount
getNetworkBlockCount(d) == d.networkBlockCount

RECURSIVE firstKnown(_, _, _)
\* The daemon's resume point: the height of the first of checkpoints[n..] that
\* is a block of its chain, -1 when there is none.
firstKnown(checkpoints, n, net) ==
  IF n > Len(checkpoints) THEN -1
  ELSE IF BlockHeight(checkpoints[n]) < net.network_height /\ ChainHash(net, BlockHeight(checkpoints[n])) = checkpoints[n] THEN BlockHeight(checkpoints[n])
  ELSE firstKnown(checkpoints, n + 1, net)

\* ConventionalDaemon.getWalletSyncData: the blocks after the resume point, or
\* from startHeight on; the request throws when the daemon cannot be reached.
getWalletSyncData(blockHashCheckpoints, startHeight, net) ==
  IF net.offline THEN [threw |-> TRUE, blocks |-> <<>>]
  ELSE LET known == firstKnown(blockHashCheckpoints, 1, net)
           from == IF known >= 0 THEN known + 1 ELSE startHeight
       IN [threw |-> FALSE, blocks |-> [i \in 1..(IF net.network_height > from THEN net.network_height - from ELSE 0) |-> Block(net, from + i - 1)]]

\* SynchronizationStatus.storeBlockHash(height, hash)
storeBlockHash(status, height, hash) == [lastKnownBlockHashes |-> <<hash>> \o status.lastKnownBlockHashes, lastKnownBlockHeight |-> height]

\* SynchronizationStatus.getBlockCheckpoints()
getBlockCheckpoints(status) == status.lastKnownBlockHashes

\* The fork signal of the synchronizer: the first block of a batch does not
\* follow the last block applied.
forked(status, blocks) == blocks # <<>> /\ status.lastKnownBlockHashes # <<>> /\ blocks[1].previousBlockHash # status.lastKnownBlockHashes[1]

\* The fork height taken one block too high.
forkHeight_afterFirst(blocks) == blocks[1].blockHeight + 1

\* The height of the fork: that of the first block of the batch.
forkHeight(blocks) == blocks[1].blockHeight

\* SynchronizationStatus reset to the highest block below the fork.
resetToHeight(status, height) ==
  LET gone == status.lastKnownBlockHeight - height + 1
  IN [lastKnownBlockHashes |-> SubSeq(status.lastKnownBlockHashes, gone + 1, Len(status.lastKnownBlockHashes)), lastKnownBlockHeight |-> height - 1]

\* An event emitted after the events so far.
emit(events, name, w, n, was, now) == [name |-> name, w |-> w, n |-> n, was |-> was, now |-> now, prev |-> events.name]

\* The rule with sync emitted again on every tick the wallet is level.
syncEvents_everyTick(b, d, events) ==
  LET w == b.synchronizationStatus.lastKnownBlockHeight
      n == getNetworkBlockCount(d)
  IN IF w + 1 >= n THEN [backend |-> [b EXCEPT !.synced = TRUE], emitted |-> emit(events, "sync", w, n, b.synced, TRUE)]
     ELSE IF b.synced THEN [backend |-> [b EXCEPT !.synced = FALSE], emitted |-> emit(events, "desync", w, n, b.synced, FALSE)]
     ELSE [backend |-> b, emitted |-> events]

\* The rule with the wallet taken as behind as soon as it is one block short.
syncEvents_oneShort(b, d, events) ==
  LET w == b.synchronizationStatus.lastKnownBlockHeight
      n == getNetworkBlockCount(d)
  IN IF ~b.synced /\ w + 1 >= n THEN [backend |-> [b EXCEPT !.synced = TRUE], emitted |-> emit(events, "sync", w, n, b.synced, TRUE)]
     ELSE IF b.synced /\ w < n THEN [backend |-> [b EXCEPT !.synced = FALSE], emitted |-> emit(events, "desync", w, n, b.synced, FALSE)]
     ELSE [backend |-> b, emitted |-> events]

\* The sync/desync event rule of a tick: the backend and the events after it.
syncEvents(b, d, events) ==
  LET w == b.synchronizationStatus.lastKnownBlockHeight
      n == getNetworkBlockCount(d)
  IN IF ~b.synced /\ w + 1 >= n THEN [backend |-> [b EXCEPT !.synced = TRUE], emitted |-> emit(events, "sync", w, n, b.synced, TRUE)]
     ELSE IF b.synced /\ w + 1 < n THEN [backend |-> [b EXCEPT !.synced = FALSE], emitted |-> emit(events, "desync", w, n, b.synced, FALSE)]
     ELSE [backend |-> b, emitted |-> events]

\* stop() that leaves the fetched blocks in the queue.
stop_keepQueue(b) == [b EXCEPT !.started = FALSE, !.fetches = {[f EXCEPT !.cancelled = TRUE] : f \in b.fetches}]

\* stop(): the periodic task is cancelled, the blocks not yet processed are
\* dropped and the answers still awaited will be discarded.
stop(b) == [b EXCEPT !.started = FALSE, !.blocksToProcess = <<>>, !.fetches = {[f EXCEPT !.cancelled = TRUE] : f \in b.fetches}]

\* The answer to a fetch stored whether or not stop() was called meanwhile.
storeBlocks_afterStop(b, fetch, answer) ==
  IF answer.threw THEN [b EXCEPT !.fetches = @ \ {fetch}]
  ELSE [b EXCEPT !.fetches = @ \ {fetch}, !.blocksToProcess = @ \o answer.blocks,
                 !.synchronizationStatus = IF forked(@, answer.blocks) THEN resetToHeight(@, forkHeight(answer.blocks)) ELSE @]

\* The end of the fetch step: the answer to a request arrives. It is discarded
\* after stop(); a failure is logged and the tick returns; otherwise the blocks
\* are appended to blocksToProcess, the synchronization status reset below the
\* fork when they signal one.
storeBlocks(b, fetch, answer) ==
  IF fetch.cancelled \/ answer.threw THEN [b EXCEPT !.fetches = @ \ {fetch}]
  ELSE [b EXCEPT !.fetches = @ \ {fetch}, !.blocksToProcess = @ \o answer.blocks,
                 !.synchronizationStatus = IF forked(@, answer.blocks) THEN resetToHeight(@, forkHeight(answer.blocks)) ELSE @]

\* The tick is awaiting the answer to a fetch.
Fetching(b) == \E f \in b.fetches : ~f.cancelled

\* start(): the daemon info is primed and the periodic task scheduled.
Start ==
  /\ ~backend.started
  /\ backend' = [backend EXCEPT !.started = TRUE]
  /\ daemon' = updateDaemonInfo(daemon, info(network))
  /\ UNCHANGED <<wallet, pre, call, reapply, network, emitted, applied>>

Stop ==
  /\ backend.started
  /\ backend' = stop(backend)
  /\ UNCHANGED <<wallet, pre, call, reapply, daemon, network, emitted, applied>>

\* The daemon info refreshed by a tick.
UpdateDaemonInfo ==
  /\ backend.started /\ ~Fetching(backend)
  /\ daemon' = updateDaemonInfo(daemon, info(network))
  /\ UNCHANGED <<wallet, pre, call, reapply, backend, network, emitted, applied>>

\* The fetch step of a tick, up to its await: blocks are asked for when the
\* queue is empty, from the checkpoints of the blocks applied.
FetchBlocks ==
  /\ backend.started /\ ~Fetching(backend)
  /\ backend.blocksToProcess = <<>>
  /\ backend' = [backend EXCEPT !.fetches = @ \cup {[blockHashCheckpoints |-> getBlockCheckpoints(backend.synchronizationStatus), cancelled |-> FALSE]}]
  /\ UNCHANGED <<wallet, pre, call, reapply, daemon, network, emitted, applied>>

\* The answer of the daemon to a fetch arrives. On a fork signal the wallet
\* removes what it holds from the fork height on.
StoreBlocks ==
  \E fetch \in backend.fetches :
    LET answer == getWalletSyncData(fetch.blockHashCheckpoints, 0, network)
        fork == ~fetch.cancelled /\ ~answer.threw /\ forked(backend.synchronizationStatus, answer.blocks)
    IN /\ backend' = storeBlocks(backend, fetch, answer)
       /\ wallet' = IF fork THEN removeForkedTransactions(wallet, forkHeight(answer.blocks)) ELSE wallet
       /\ pre' = IF fork THEN wallet ELSE pre
       /\ applied' = IF fork THEN [applied EXCEPT !.forkHeight = forkHeight(answer.blocks)] ELSE applied
       /\ call' = [op |-> "getWalletSyncData", args |-> <<fetch>>, threw |-> answer.threw, ret |-> answer.blocks]
       /\ UNCHANGED <<reapply, daemon, network, emitted>>

\* The process step of a tick, blocksPerTick = 1: the first block of the queue
\* is applied to the wallet and its hash stored.
ProcessBlock ==
  LET block == backend.blocksToProcess[1]
      r == addTransactions(wallet, block.transactions, Len(block.transactions))
  IN /\ backend.started /\ ~Fetching(backend)
     /\ backend.blocksToProcess # <<>>
     /\ wallet' = r.wallet
     /\ pre' = wallet
     /\ call' = [op |-> "processBlock", args |-> <<block>>, threw |-> r.threw, ret |-> <<>>]
     /\ backend' = [backend EXCEPT !.blocksToProcess = Tail(@), !.synchronizationStatus = storeBlockHash(@, block.blockHeight, block.blockHash)]
     /\ applied' = [height |-> block.blockHeight, forkHeight |-> -1]
     /\ UNCHANGED <<reapply, daemon, network, emitted>>

\* The sync/desync step of a tick.
SyncEvents ==
  LET r == syncEvents(backend, daemon, emitted)
  IN /\ backend.started /\ ~Fetching(backend)
     /\ backend' = r.backend
     /\ emitted' = r.emitted
     /\ UNCHANGED <<wallet, pre, call, reapply, daemon, network, applied>>

\* The network: a block is mined; the daemon becomes unreachable, or reachable
\* again.
MineBlock ==
  /\ network.network_height + 1 \in NetworkHeights
  /\ network' = [network EXCEPT !.network_height = @ + 1]
  /\ UNCHANGED <<wallet, pre, call, reapply, daemon, backend, emitted, applied>>

DaemonOffline ==
  /\ ~network.offline
  /\ network' = [network EXCEPT !.offline = TRUE]
  /\ UNCHANGED <<wallet, pre, call, reapply, daemon, backend, emitted, applied>>

DaemonOnline ==
  /\ network.offline
  /\ network' = [network EXCEPT !.offline = FALSE]
  /\ UNCHANGED <<wallet, pre, call, reapply, daemon, backend, emitted, applied>>

\* A wallet just created or imported, its backend not yet started.
InitLoop ==
  /\ wallet \in {NewSubWallets("addrA", 0, TRUE, "view", "spendA"), NewSubWallets("addrA", 0, FALSE, "view", Undefined)}
  /\ pre = wallet /\ call = NoCall /\ reapply = NoReapply
  /\ daemon = NewConventionalDaemon /\ backend = NewWalletBackend /\ emitted = NoEvent /\ applied = NoBlock
  /\ network \in {[NewNetwork EXCEPT !.network_height = h] : h \in {0, 1}}

NextLoop == Start \/ Stop \/ UpdateDaemonInfo \/ FetchBlocks \/ StoreBlocks \/ ProcessBlock \/ SyncEvents \/ MineBlock \/ DaemonOffline \/ DaemonOnline

\* The backend, its daemon and the network.
SpecLoop == InitLoop /\ [][NextLoop]_vars

\* The chain is reorganised, once, from a height above the genesis block: the
\* daemon has other blocks from there on.
Reorg ==
  \E height \in 1..(network.network_height - 1) :
    /\ network.reorg = 0
    /\ network' = [network EXCEPT !.reorg = height]
    /\ UNCHANGED <<wallet, pre, call, reapply, daemon, backend, emitted, applied>>

NextFork == Start \/ Stop \/ FetchBlocks \/ StoreBlocks \/ ProcessBlock \/ MineBlock \/ Reorg

\* The backend fetching and applying blocks of a chain that is reorganised.
SpecFork == InitLoop /\ [][NextFork]_vars

\* The periodic task keeps ticking while the wallet is started: no step of a
\* tick stays possible forever without being taken.
SpecLoopFair == SpecLoop /\ WF_vars(UpdateDaemonInfo) /\ WF_vars(FetchBlocks) /\ WF_vars(StoreBlocks) /\ WF_vars(ProcessBlock) /\ WF_vars(SyncEvents)

(***************************************************************************)
(* WalletSynchronizer.processBlock (spec.md, section 4.F): the outputs and *)
(* spends of a raw block that belong to the wallet, and their application  *)
(* to the wallet container.                                                *)
(***************************************************************************)
RawOutput(key, amount) == [key |-> key, amount |-> amount]

RawInput(keyImage, amount) == [keyImage |-> keyImage, amount |-> amount]

\* CryptoOps.generateKeyDerivation(txPublicKey, privateViewKey)
generateKeyDerivation(txPublicKey, privateViewKey) == IF txPublicKey = "txpub1" THEN "d1" ELSE "d2"

\* CryptoOps.underivePublicKey(derivation, outputIndex, key): the public spend
\* key the output was sent to.
underivePublicKey(derivation, outputIndex, key) == CASE key = "okA" -> KeyA [] key = "okB" -> KeyB [] OTHER -> "pkX"

\* The coinbase transaction of the block at a height, paying the miner's key.
RawCoinbase(key, height) == [hash |-> "h3", txPublicKey |-> "txpub1", unlockTime |-> height + 1, outputs |-> <<RawOutput(key, 7)>>, inputs |-> <<>>, paymentId |-> ""]

\* A transaction that pays the wallet 5, one that spends the output of the
\* coinbase transaction, and one of other people.
RawPays == [hash |-> "h1", txPublicKey |-> "txpub2", unlockTime |-> 0, outputs |-> <<RawOutput("okX", 4), RawOutput("okA", 5)>>, inputs |-> <<RawInput("k2", 10)>>, paymentId |-> "pid1"]

RawSpends == [hash |-> "h2", txPublicKey |-> "txpub2", unlockTime |-> 0, outputs |-> <<RawOutput("okX", 6)>>, inputs |-> <<RawInput("k1", 7)>>, paymentId |-> ""]

RawForeign == [hash |-> "h0", txPublicKey |-> "txpub2", unlockTime |-> 0, outputs |-> <<RawOutput("okX", 2)>>, inputs |-> <<RawInput("k2", 3)>>, paymentId |-> ""]

RawBlock(height, coinbaseKey, txs) == [blockHeight |-> height, blockHash |-> BlockHash(height), timestamp |-> 100 + height, coinbaseTX |-> RawCoinbase(coinbaseKey, height), transactions |-> txs]

\* The blocks the daemon may deliver.
RawBlocks == {RawBlock(height, coinbaseKey, txs) : height \in Heights, coinbaseKey \in {"okA", "okX"}, txs \in {<<>>, <<RawPays>>, <<RawSpends>>, <<RawForeign>>}}

\* Output recognition: the outputs of rawTX that are the wallet's, each with
\* the subwallet it belongs to and the input it becomes.
ourOutputs(w, rawTX, blockHeight) ==
  LET derivation == generateKeyDerivation(rawTX.txPublicKey, w.privateViewKey)
      output(i) ==
        LET publicSpendKey == underivePublicKey(derivation, i - 1, rawTX.outputs[i].key)
        IN [ours |-> publicSpendKey \in Range(w.publicSpendKeys),
            publicSpendKey |-> publicSpendKey,
            input |-> [keyImage |-> getTxInputKeyImage(w, publicSpendKey, derivation, i - 1).ret,
                       amount |-> rawTX.outputs[i].amount,
                       blockHeight |-> blockHeight,
                       transactionPublicKey |-> rawTX.txPublicKey,
                       transactionIndex |-> i - 1,
                       globalOutputIndex |-> 0,
                       key |-> rawTX.outputs[i].key,
                       spendHeight |-> 0,
                       unlockTime |-> rawTX.unlockTime,
                       parentTransactionHash |-> rawTX.hash]]
  IN SelectSeq([i \in 1..Len(rawTX.outputs) |-> output(i)], LAMBDA o : o.ours)

\* Spend recognition: the inputs of rawTX that spend a key image of the wallet.
ourSpends(w, rawTX) ==
  LET spend(i) ==
        LET owner == getKeyImageOwner(w, rawTX.inputs[i].keyImage)
        IN [ours |-> owner[1], publicSpendKey |-> owner[2], keyImage |-> rawTX.inputs[i].keyImage, amount |-> rawTX.inputs[i].amount]
  IN SelectSeq([i \in 1..Len(rawTX.inputs) |-> spend(i)], LAMBDA x : x.ours)

RECURSIVE sumAmounts(_, _)
\* The sum of the amounts of seq[1..n].
sumAmounts(seq, n) == IF n = 0 THEN 0 ELSE sumAmounts(seq, n - 1) + seq[n].amount

RECURSIVE addTransfers(_, _, _, _)
\* transfers with sign * amount of each of seq[1..n] added to its subwallet.
addTransfers(transfers, seq, n, sign) ==
  IF n = 0 THEN transfers
  ELSE LET sofar == addTransfers(transfers, seq, n - 1, sign)
           key == seq[n].publicSpendKey
           had == IF MapHas(sofar, key) THEN MapGet(sofar, key) ELSE 0
           amount == IF "input" \in DOMAIN seq[n] THEN seq[n].input.amount ELSE seq[n].amount
       IN MapSet(sofar, key, had + sign * amount)

\* What one raw transaction gives: the Transaction synthesized when it touches
\* the wallet, the inputs to add and the key images to mark spent.
processTransaction(w, rawTX, block, isCoinbase) ==
  LET received == ourOutputs(w, rawTX, block.blockHeight)
      spent == IF isCoinbase THEN <<>> ELSE ourSpends(w, rawTX)
      transfers == addTransfers(addTransfers(<<>>, received, Len(received), 1), spent, Len(spent), -1)
      fee == IF isCoinbase THEN 0 ELSE sumAmounts(rawTX.inputs, Len(rawTX.inputs)) - sumAmounts(rawTX.outputs, Len(rawTX.outputs))
      transaction == [transfers |-> transfers, hash |-> rawTX.hash, fee |-> fee, blockHeight |-> block.blockHeight, timestamp |-> block.timestamp, paymentID |-> rawTX.paymentId, unlockTime |-> rawTX.unlockTime, isCoinbaseTransaction |-> isCoinbase]
  IN [transactionsToAdd |-> IF received = <<>> /\ spent = <<>> THEN <<>> ELSE <<transaction>>,
      inputsToAdd |-> received,
      keyImagesToMarkSpent |-> spent]

RECURSIVE processTransactions(_, _, _, _)
\* The three lists of the standard transactions txs[1..n] of a block.
processTransactions(w, block, txs, n) ==
  IF n = 0 THEN [transactionsToAdd |-> <<>>, inputsToAdd |-> <<>>, keyImagesToMarkSpent |-> <<>>]
  ELSE LET sofar == processTransactions(w, block, txs, n - 1)
           this == processTransaction(w, txs[n], block, FALSE)
       IN [transactionsToAdd |-> sofar.transactionsToAdd \o this.transactionsToAdd,
           inputsToAdd |-> sofar.inputsToAdd \o this.inputsToAdd,
           keyImagesToMarkSpent |-> sofar.keyImagesToMarkSpent \o this.keyImagesToMarkSpent]

\* processBlock that scans the coinbase transaction whatever the setting.
processBlock_alwaysCoinbase(w, block, scanCoinbase) ==
  LET coinbase == processTransaction(w, block.coinbaseTX, block, TRUE)
      standard == processTransactions(w, block, block.transactions, Len(block.transactions))
  IN [transactionsToAdd |-> coinbase.transactionsToAdd \o standard.transactionsToAdd,
      inputsToAdd |-> coinbase.inputsToAdd \o standard.inputsToAdd,
      keyImagesToMarkSpent |-> standard.keyImagesToMarkSpent]

\* WalletSynchronizer.processBlock(block): the coinbase transaction is looked
\* at only when coinbase scanning is on, then the standard transactions.
processBlock(w, block, scanCoinbase) ==
  LET none == [transactionsToAdd |-> <<>>, inputsToAdd |-> <<>>, keyImagesToMarkSpent |-> <<>>]
      coinbase == IF scanCoinbase THEN processTransaction(w, block.coinbaseTX, block, TRUE) ELSE none
      standard == processTransactions(w, block, block.transactions, Len(block.transactions))
  IN [transactionsToAdd |-> coinbase.transactionsToAdd \o standard.transactionsToAdd,
      inputsToAdd |-> coinbase.inputsToAdd \o standard.inputsToAdd,
      keyImagesToMarkSpent |-> standard.keyImagesToMarkSpent]

RECURSIVE storeInputs(_, _, _)
\* storeTransactionInput for each of inputs[1..n]; a throw ends the storing.
storeInputs(w, inputs, n) ==
  IF n = 0 THEN [threw |-> FALSE, wallet |-> w]
  ELSE LET done == storeInputs(w, inputs, n - 1)
           r == storeTransactionInput(done.wallet, inputs[n].publicSpendKey, inputs[n].input)
       IN IF done.threw THEN done ELSE [threw |-> r.threw, wallet |-> r.wallet]

RECURSIVE markSpent(_, _, _, _)
\* markInputAsSpent for each of spends[1..n]; a throw ends the marking.
markSpent(w, spends, n, blockHeight) ==
  IF n = 0 THEN [threw |-> FALSE, wallet |-> w]
  ELSE LET done == markSpent(w, spends, n - 1, blockHeight)
           r == markInputAsSpent(done.wallet, spends[n].publicSpendKey, spends[n].keyImage, blockHeight)
       IN IF done.threw THEN done ELSE [threw |-> r.threw, wallet |-> r.wallet]

\* WalletBackend.storeTxData: the three lists applied to the wallet, the
\* transactions first, then the inputs, then the spends.
storeTxData(w, data, blockHeight) ==
  LET added == addTransactions(w, data.transactionsToAdd, Len(data.transactionsToAdd))
      stored == storeInputs(added.wallet, data.inputsToAdd, Len(data.inputsToAdd))
      marked == markSpent(stored.wallet, data.keyImagesToMarkSpent, Len(data.keyImagesToMarkSpent), blockHeight)
  IN IF added.threw THEN [threw |-> TRUE, wallet |-> added.wallet]
     ELSE IF stored.threw THEN [threw |-> TRUE, wallet |-> stored.wallet]
     ELSE [threw |-> marked.threw, wallet |-> marked.wallet]

\* wallet.scanCoinbaseTransactions(shouldScan)
ScanCoinbaseTransactions ==
  \E shouldScan \in BOOLEAN :
    /\ backend' = [backend EXCEPT !.scanCoinbase = shouldScan]
    /\ UNCHANGED <<wallet, pre, call, reapply, daemon, network, emitted, applied>>

\* A raw block is processed and what it gives applied to the wallet.
ProcessRawBlock ==
  \E block \in RawBlocks :
    LET data == processBlock(wallet, block, backend.scanCoinbase)
        r == storeTxData(wallet, data, block.blockHeight)
    IN /\ wallet' = r.wallet
       /\ pre' = wallet
       /\ call' = [op |-> "processRawBlock", args |-> <<block, backend.scanCoinbase>>, threw |-> r.threw, ret |-> data]
       /\ UNCHANGED <<reapply, loopVars>>

NextSync == ScanCoinbaseTransactions \/ ProcessRawBlock

\* The synchronizer turning raw blocks into transactions and inputs.
SpecSync == InitLoop /\ [][NextSync]_vars

(***************************************************************************)
(* ConventionalDaemon: init, the node fee and the block counts, against    *)
(* every answer of the daemon.                                             *)
(***************************************************************************)
\* The answers of this.daemon.info(): a rejected request, or the heights of a
\* daemon that may be ahead of or behind the network.
InfoAnswers == {NoInfo} \cup {Info(h, n, 1, 2 * blockTargetTime) : h \in NetworkHeights, n \in NetworkHeights}

FeeAmounts == {0, 5}

\* The answers of this.daemon.fee(): a rejected request, or { status, address,
\* amount }.
FeeAnswers == {[failed |-> TRUE, status |-> "", address |-> "", amount |-> 0]} \cup {[failed |-> FALSE, status |-> s, address |-> a, amount |-> n] : s \in {"OK", "BUSY"}, a \in {"", "addrB", "addrX", "intA", "bad"}, n \in FeeAmounts}

\* updateFeeInfo that does not validate the address of the answer.
updateFeeInfo_anyAddress(d, feeInfo) ==
  IF feeInfo.failed THEN d
  ELSE IF feeInfo.status # "OK" THEN d
  ELSE IF feeInfo.amount > 0 THEN [d EXCEPT !.feeAddress = feeInfo.address, !.feeAmount = feeInfo.amount]
  ELSE d

\* updateFeeInfo that does not look at the status of the answer.
updateFeeInfo_anyStatus(d, feeInfo) ==
  IF feeInfo.failed THEN d
  ELSE IF validateAddresses(<<feeInfo.address>>, FALSE).ret.errorCode # "SUCCESS" THEN d
  ELSE IF feeInfo.amount > 0 THEN [d EXCEPT !.feeAddress = feeInfo.address, !.feeAmount = feeInfo.amount]
  ELSE d

\* ConventionalDaemon.updateFeeInfo with the answer of this.daemon.fee().
updateFeeInfo(d, feeInfo) ==
  IF feeInfo.failed THEN d
  ELSE IF feeInfo.status # "OK" THEN d
  ELSE IF validateAddresses(<<feeInfo.address>>, FALSE).ret.errorCode # "SUCCESS" THEN d
  ELSE IF feeInfo.amount > 0 THEN [d EXCEPT !.feeAddress = feeInfo.address, !.feeAmount = feeInfo.amount]
  ELSE d

\* ConventionalDaemon.nodeFee
nodeFee(d) == <<d.feeAddress, d.feeAmount>>

\* ConventionalDaemon.getLocalDaemonBlockCount
getLocalDaemonBlockCount(d) == d.localDaemonBlockCount

\* ConventionalDaemon.init: Promise.all([updateDaemonInfo(), updateFeeInfo()]);
\* the two write different fields, so their order does not show.
init(d, infoAnswer, feeAnswer) == updateFeeInfo(updateDaemonInfo(d, infoAnswer), feeAnswer)

DaemonInit ==
  \E infoAnswer \in InfoAnswers, feeAnswer \in FeeAnswers :
    /\ daemon' = init(daemon, infoAnswer, feeAnswer)
    /\ call' = [op |-> "init", args |-> <<infoAnswer, feeAnswer>>, threw |-> FALSE, ret |-> <<>>, before |-> nodeFee(daemon)]
    /\ UNCHANGED <<wallet, pre, reapply, backend, network, emitted, applied>>

\* updateDaemonInfo on its own, as every tick of the main loop calls it.
DaemonUpdateInfo ==
  \E infoAnswer \in InfoAnswers :
    /\ daemon' = updateDaemonInfo(daemon, infoAnswer)
    /\ call' = [op |-> "updateDaemonInfo", args |-> <<infoAnswer>>, threw |-> FALSE, ret |-> <<>>]
    /\ UNCHANGED <<wallet, pre, reapply, backend, network, emitted, applied>>

InitDaemon ==
  /\ wallet = NewSubWallets("addrA", 0, TRUE, "view", "spendA")
  /\ pre = wallet /\ call = NoCall /\ reapply = NoReapply /\ NotStarted

NextDaemon == DaemonInit \/ DaemonUpdateInfo

SpecDaemon == InitDaemon /\ [][NextDaemon]_vars

(***************************************************************************)
(* init() with its two requests in flight: each update runs up to its      *)
(* await when init is called and goes on when its response arrives, the    *)
(* two in either order.                                                    *)
(***************************************************************************)
\* The answers of the two requests of an init(): info() of daemons with
\* different peers and difficulty, and fee() answers accepted and not.
InitInfoAnswers == {NoInfo, Info(0, 0, 0, 0), Info(2, 3, 1, 2 * blockTargetTime), Info(3, 2, 2, 3 * blockTargetTime)}

InitFeeAnswers == {a \in FeeAnswers : a.failed \/ (a.address \in {"", "addrB", "addrX"} /\ (a.amount > 0 \/ a.status = "OK"))}

\* init() is called: both requests are sent.
InitCall ==
  \E infoAnswer \in InitInfoAnswers, feeAnswer \in InitFeeAnswers :
    /\ call.op = "init" => call.pending = {}
    /\ call' = [op |-> "init", args |-> <<infoAnswer, feeAnswer>>, threw |-> FALSE, ret |-> <<>>, before |-> daemon, pending |-> {"info", "fee"}, first |-> "none"]
    /\ UNCHANGED <<wallet, pre, reapply, daemon, backend, network, emitted, applied>>

\* The response of info() arrives and updateDaemonInfo goes on.
InfoResponse ==
  /\ call.op = "init" /\ "info" \in call.pending
  /\ daemon' = updateDaemonInfo(daemon, call.args[1])
  /\ call' = [call EXCEPT !.pending = @ \ {"info"}, !.first = IF @ = "none" THEN "info" ELSE @]
  /\ UNCHANGED <<wallet, pre, reapply, backend, network, emitted, applied>>

\* The response of fee() arrives and updateFeeInfo goes on.
FeeResponse ==
  /\ call.op = "init" /\ "fee" \in call.pending
  /\ daemon' = updateFeeInfo(daemon, call.args[2])
  /\ call' = [call EXCEPT !.pending = @ \ {"fee"}, !.first = IF @ = "none" THEN "fee" ELSE @]
  /\ UNCHANGED <<wallet, pre, reapply, backend, network, emitted, applied>>

NextInit == InitCall \/ InfoResponse \/ FeeResponse

SpecInit == InitDaemon /\ [][NextInit]_vars

(***************************************************************************)
(* The validation helpers, called on a wallet with every kind of argument. *)
(***************************************************************************)
\* A wallet of two subwallets, the first holding an unlocked input of twice
\* 2 ** 64 atomic units, the second an input that unlocks at a time.
FundedWallet == storeTransactionInput(fromJSON(WalletFileA), KeyA, [Input("k3", 1, 0) EXCEPT !.amount = 2 ^ (AmountBits + 1), !.unlockTime = 0, !.parentTransactionHash = "h3"]).wallet

\* All sequences of at most two elements of a set.
UpToTwo(S) == {<<>>} \cup {<<x>> : x \in S} \cup {<<x, y>> : x \in S, y \in S}

\* The amounts of a destination: zero, negative, not an integer, small, and
\* two that with a fee reach 2 ** 64 - 1 and beyond.
Amounts == {Num(0), 0 - Num(1), NumAndHalf(1), Num(5)}

LargeAmounts == {Num(5), Num(2 ^ AmountBits - 16), Num(2 ^ AmountBits)}

\* The fees: below the minimum, the minimum, above it, and not an integer.
Fees == {Num(minimumFee - 1), Num(minimumFee), Num(minimumFee + 5), NumAndHalf(minimumFee)}

Mixins == {0 - Num(1), Num(0), Num(1), NumAndHalf(1), Num(3), Num(4)}

ValidateAddresses ==
  \E addresses \in UpToTwo({"addrA", "addrX", "intA", "bad"}), integratedAddressesAllowed \in BOOLEAN :
    LET r == validateAddresses(addresses, integratedAddressesAllowed)
    IN /\ call' = [op |-> "validateAddresses", args |-> <<addresses, integratedAddressesAllowed>>, threw |-> r.threw, error |-> r.error, ret |-> r.ret]
       /\ pre' = wallet
       /\ UNCHANGED <<wallet, reapply, loopVars>>

ValidateDestinations ==
  \E destinations \in UpToTwo({"addrX", "intA", "bad"} \X Amounts) :
    LET r == validateDestinations(destinations)
    IN /\ call' = [op |-> "validateDestinations", args |-> <<destinations>>, threw |-> r.threw, error |-> r.error, ret |-> r.ret]
       /\ pre' = wallet
       /\ UNCHANGED <<wallet, reapply, loopVars>>

ValidateIntegratedAddresses ==
  \E destinations \in UpToTwo({"addrX", "intA", "intB", "badLong"} \X {Num(5)}), paymentID \in {"", "pidA"} :
    LET r == validateIntegratedAddresses(destinations, paymentID)
    IN /\ call' = [op |-> "validateIntegratedAddresses", args |-> <<destinations, paymentID>>, threw |-> r.threw, error |-> r.error, ret |-> r.ret]
       /\ pre' = wallet
       /\ UNCHANGED <<wallet, reapply, loopVars>>

ValidateOurAddresses ==
  \E addresses \in UpToTwo({"addrA", "addrB", "addrX", "intA", "bad"}) :
    LET r == validateOurAddresses(addresses, wallet)
    IN /\ call' = [op |-> "validateOurAddresses", args |-> <<addresses>>, threw |-> r.threw, error |-> r.error, ret |-> r.ret]
       /\ pre' = wallet
       /\ UNCHANGED <<wallet, reapply, loopVars>>

ValidateAmount ==
  \E destinations \in UpToTwo({"addrX"} \X LargeAmounts), fee \in Fees, subWalletsToTakeFrom \in {<<KeyA>>, <<KeyA, "pkX">>}, currentHeight \in Heights, now \in Nows :
    LET r == validateAmount(destinations, fee, subWalletsToTakeFrom, wallet, currentHeight, now)
    IN /\ call' = [op |-> "validateAmount", args |-> <<destinations, fee, subWalletsToTakeFrom, currentHeight, now>>, threw |-> r.threw, error |-> r.error, ret |-> r.ret]
       /\ pre' = wallet
       /\ UNCHANGED <<wallet, reapply, loopVars>>

ValidateMixin ==
  \E mixin \in Mixins, height \in Heights :
    LET r == validateMixin(mixin, height)
    IN /\ call' = [op |-> "validateMixin", args |-> <<mixin, height>>, threw |-> r.threw, error |-> r.error, ret |-> r.ret]
       /\ pre' = wallet
       /\ UNCHANGED <<wallet, reapply, loopVars>>

ValidatePaymentID ==
  \E paymentID \in PaymentIDs :
    LET r == validatePaymentID(paymentID)
    IN /\ call' = [op |-> "validatePaymentID", args |-> <<paymentID>>, threw |-> r.threw, error |-> r.error, ret |-> r.ret]
       /\ pre' = wallet
       /\ UNCHANGED <<wallet, reapply, loopVars>>

InitValidate ==
  /\ wallet \in {FundedWallet, fromJSON(WalletFileA)}
  /\ pre = wallet /\ call = NoCall /\ reapply = NoReapply /\ NotStarted

NextValidate == ValidateAddresses \/ ValidateDestinations \/ ValidateIntegratedAddresses \/ ValidateOurAddresses \/ ValidateAmount \/ ValidateMixin \/ ValidatePaymentID

SpecValidate == InitValidate /\ [][NextValidate]_vars

(***************************************************************************)
(* Properties.                                                             *)
(***************************************************************************)
NoRepeat(array) == \A i, j \in 1..Len(array) : array[i] = array[j] => i = j

\* C1: after any sequence of addTransaction, removeCancelledTransaction and
\* removeForkedTransactions calls, throwing ones included, no two entries of
\* the confirmed transactions list have the same hash.
C1_ConfirmedHashesUnique == \A i, j \in 1..Len(wallet.transactions) : wallet.transactions[i].hash = wallet.transactions[j].hash => i = j

\* A duplicate was offered and refused while two transactions are confirmed.
C1_Witness == call.op = "addTransaction" /\ call.threw /\ Len(wallet.transactions) >= 2

\* C2: in every reachable state no transaction hash is both in the confirmed
\* transactions list and in lockedTransactions.
C2_LockedAndConfirmedDisjoint == \A i \in 1..Len(wallet.transactions), j \in 1..Len(wallet.lockedTransactions) : wallet.transactions[i].hash # wallet.lockedTransactions[j].hash

\* A locked send has just been confirmed while another send is still locked.
C2_Witness ==
  /\ call.op = "addTransaction" /\ ~call.threw
  /\ Some(pre.lockedTransactions, LAMBDA tx : tx.hash = call.args[1].hash)
  /\ Len(wallet.lockedTransactions) >= 1

\* C3: addTransaction(tx) called when a confirmed transaction with tx.hash
\* exists throws and leaves the confirmed transactions list as it was.
C3_DuplicateThrowsAndKeepsList ==
  (call.op = "addTransaction" /\ Some(pre.transactions, LAMBDA tx : tx.hash = call.args[1].hash))
    => (call.threw /\ wallet.transactions = pre.transactions)

\* A confirmed hash was offered again, at another height.
C3_Witness ==
  /\ call.op = "addTransaction"
  /\ \E i \in 1..Len(pre.transactions) : pre.transactions[i].hash = call.args[1].hash /\ pre.transactions[i].blockHeight # call.args[1].blockHeight

\* C4: after a successful addTransaction(tx), tx is the last confirmed
\* transaction, no locked entry has tx.hash, and the locked entries of other
\* hashes are all still there in their order.
C4_PromotionRemovesOnlyThatSend ==
  (call.op = "addTransaction" /\ ~call.threw)
    => /\ Len(wallet.transactions) >= 1
       /\ Last(wallet.transactions) = call.args[1]
       /\ \A j \in 1..Len(wallet.lockedTransactions) : wallet.lockedTransactions[j].hash # call.args[1].hash
       /\ wallet.lockedTransactions = SelectSeq(pre.lockedTransactions, LAMBDA tx : tx.hash # call.args[1].hash)

\* The middle one of three locked sends was promoted.
C4_Witness ==
  /\ call.op = "addTransaction" /\ ~call.threw
  /\ Len(pre.lockedTransactions) = 3 /\ pre.lockedTransactions[2].hash = call.args[1].hash
  /\ Len(wallet.lockedTransactions) = 2

\* C5: after removeForkedTransactions(h) no confirmed transaction has
\* blockHeight >= h, the ones below h are all still there in their order, and
\* in every subwallet no input has blockHeight >= h, every input with
\* spendHeight >= h has spendHeight 0, and the inputs are those it kept.
C5_ForkRemovesFromHeight ==
  call.op = "removeForkedTransactions"
    => LET h == call.args[1]
       IN /\ \A i \in 1..Len(wallet.transactions) : wallet.transactions[i].blockHeight < h
          /\ wallet.transactions = SelectSeq(pre.transactions, LAMBDA tx : tx.blockHeight < h)
          /\ Len(wallet.subWallets) = Len(pre.subWallets)
          /\ \A s \in 1..Len(wallet.subWallets) :
               LET inputs == wallet.subWallets[s][2].inputs
                   kept == SelectSeq(pre.subWallets[s][2].inputs, LAMBDA input : input.blockHeight < h)
               IN /\ wallet.subWallets[s][1] = pre.subWallets[s][1]
                  /\ \A i \in 1..Len(inputs) : inputs[i].blockHeight < h /\ (inputs[i].spendHeight >= h => inputs[i].spendHeight = 0)
                  /\ Len(inputs) = Len(kept)
                  /\ \A i \in 1..Len(inputs) : inputs[i] = [kept[i] EXCEPT !.spendHeight = IF @ >= h THEN 0 ELSE @]

\* One fork dropped a confirmed transaction and kept another, dropped an
\* input, and made a spent input available again.
C5_Witness ==
  /\ call.op = "removeForkedTransactions"
  /\ Len(wallet.transactions) >= 1 /\ Len(wallet.transactions) < Len(pre.transactions)
  /\ \E s \in 1..Len(pre.subWallets) : Len(wallet.subWallets[s][2].inputs) < Len(pre.subWallets[s][2].inputs)
  /\ \E s \in 1..Len(pre.subWallets) :
       /\ Len(wallet.subWallets[s][2].inputs) = 1 /\ Len(pre.subWallets[s][2].inputs) = 1
       /\ pre.subWallets[s][2].inputs[1].spendHeight # 0 /\ wallet.subWallets[s][2].inputs[1].spendHeight = 0

\* C6: removeForkedTransactions(h) leaves lockedTransactions unchanged: the
\* locked hashes are the same before and after.
C6_ForkKeepsLocked ==
  call.op = "removeForkedTransactions"
    => /\ wallet.lockedTransactions = pre.lockedTransactions
       /\ getLockedTransactionHashes(wallet) = getLockedTransactionHashes(pre)

\* A fork at height 0 emptied the confirmed list with sends locked.
C6_Witness ==
  /\ call.op = "removeForkedTransactions" /\ call.args[1] = 0
  /\ Len(pre.transactions) >= 1 /\ Len(wallet.transactions) = 0
  /\ Len(getLockedTransactionHashes(wallet)) >= 1

\* C7 as stated: a block's transactions added at height H, then
\* removeForkedTransactions(H), then the same transactions added again: the
\* second application does not throw and gives the confirmed list the first gave.
C7_ReapplyGivesSameList ==
  (reapply.phase = "reapplied" /\ ~reapply.threw)
    => (~reapply.rethrew /\ wallet.transactions = reapply.first)

\* C7 amended: the second application never throws; it gives the same
\* confirmed list when every transaction confirmed before the block was first
\* applied has a blockHeight below H.
C7_ReapplyAfterLowerBlocks ==
  (reapply.phase = "reapplied" /\ ~reapply.threw)
    => /\ ~reapply.rethrew
       /\ (\A i \in 1..Len(reapply.before) : reapply.before[i].blockHeight < reapply.height)
            => wallet.transactions = reapply.first

\* A block of two transactions was applied over a lower one, forked and applied again.
C7_Witness ==
  /\ reapply.phase = "reapplied" /\ ~reapply.threw
  /\ Len(reapply.block) = 2
  /\ Len(reapply.before) >= 1
  /\ \A i \in 1..Len(reapply.before) : reapply.before[i].blockHeight < reapply.height
  /\ wallet.transactions = reapply.first

\* C8: after removeCancelledTransaction(hash) no locked entry has that hash,
\* every subwallet has had its removeCancelledTransaction called with it, and
\* the confirmed list and the locked entries of other hashes are unchanged.
C8_CancelRemovesLockedAndCallsSubWallets ==
  call.op = "removeCancelledTransaction"
    => LET hash == call.args[1]
       IN /\ \A j \in 1..Len(wallet.lockedTransactions) : wallet.lockedTransactions[j].hash # hash
          /\ wallet.lockedTransactions = SelectSeq(pre.lockedTransactions, LAMBDA tx : tx.hash # hash)
          /\ wallet.transactions = pre.transactions
          /\ Len(wallet.subWallets) = Len(pre.subWallets)
          /\ \A s \in 1..Len(wallet.subWallets) : wallet.subWallets[s] = <<pre.subWallets[s][1], SubWallet_removeCancelledTransaction(pre.subWallets[s][2], hash)>>

\* A locked send was cancelled while another stays locked and one is confirmed;
\* two subwallets gave up an unconfirmed input.
C8_Witness ==
  /\ call.op = "removeCancelledTransaction"
  /\ Some(pre.lockedTransactions, LAMBDA tx : tx.hash = call.args[1])
  /\ Len(wallet.lockedTransactions) >= 1 /\ Len(wallet.transactions) >= 1
  /\ \A s \in 1..Len(pre.subWallets) : Len(wallet.subWallets[s][2].lockedInputs) < Len(pre.subWallets[s][2].lockedInputs)

\* The hashes a tick's query reports as unknown to the daemon.
ReportedUnknown(answer) == IF answer.failed \/ answer.data.transactionsUnknown = Omitted THEN {} ELSE Range(answer.data.transactionsUnknown[1])

\* C9: when a tick's getCancelledTransactions query returns the locked hash H
\* as unknown, at the end of the tick lockedTransactions has no H and no
\* subwallet has an unconfirmed input whose parent is H; the locked hashes not
\* returned stay locked.
C9_ReconciliationRemovesReported ==
  call.op = "checkLockedTransactions"
    => LET locked == call.args[1]
           unknown == ReportedUnknown(call.args[2])
       IN /\ \A i \in 1..Len(locked) :
               IF locked[i] \in unknown
               THEN /\ ~Some(wallet.lockedTransactions, LAMBDA tx : tx.hash = locked[i])
                    /\ \A s \in 1..Len(wallet.subWallets) : ~Some(wallet.subWallets[s][2].lockedInputs, LAMBDA input : input.parentTransactionHash = locked[i])
               ELSE Some(wallet.lockedTransactions, LAMBDA tx : tx.hash = locked[i])
          /\ getLockedTransactionHashes(wallet) = SelectSeq(locked, LAMBDA hash : hash \notin unknown)

\* Of three locked sends the daemon reported one unknown: the send's
\* unconfirmed inputs went and two sends stay locked.
C9_Witness ==
  /\ call.op = "checkLockedTransactions"
  /\ Len(call.args[1]) = 3 /\ Len(wallet.lockedTransactions) = 2
  /\ \E s \in 1..Len(pre.subWallets) : Len(wallet.subWallets[s][2].lockedInputs) < Len(pre.subWallets[s][2].lockedInputs)

RECURSIVE BalanceOver(_, _, _, _, _)
\* The sum, over the set keys, of component c of the subwallets' balances.
BalanceOver(w, keys, currentHeight, now, c) ==
  IF keys = {} THEN 0
  ELSE LET key == CHOOSE k \in keys : TRUE
       IN SubWallet_getBalance(MapGet(w.subWallets, key), currentHeight, now)[c] + BalanceOver(w, keys \ {key}, currentHeight, now, c)

\* C10: getBalance(currentHeight, subset) returns the component-wise sum of
\* the [unlocked, locked] balances of the subwallets named in subset, and the
\* sum over all public spend keys of the wallet when subset is omitted.
C10_BalanceIsSumOverSubset ==
  (call.op = "getBalance" /\ ~call.threw)
    => LET named == IF call.args[2] = Omitted THEN pre.publicSpendKeys ELSE call.args[2][1]
       IN NoRepeat(named)
            => /\ \A i \in 1..Len(named) : MapHas(pre.subWallets, named[i])
               /\ call.ret = <<BalanceOver(pre, Range(named), call.args[1], call.args[3], 1), BalanceOver(pre, Range(named), call.args[1], call.args[3], 2)>>

\* One subwallet of two was asked for while both hold an unspent input.
C10_Witness ==
  /\ call.op = "getBalance" /\ ~call.threw
  /\ call.args[2] = Given(<<KeyB>>)
  /\ call.ret = <<0, 2>>
  /\ getBalance(wallet, call.args[1], Omitted, call.args[3]).ret = <<1, 2>>

RECURSIVE UnspentAmount(_, _)
\* The sum of the amounts of the unspent ones of inputs[1..n].
UnspentAmount(inputs, n) == IF n = 0 THEN 0 ELSE UnspentAmount(inputs, n - 1) + (IF inputs[n].spendHeight = 0 THEN inputs[n].amount ELSE 0)

RECURSIVE UnspentOver(_, _)
\* The sum of the unspent amounts over the subwallets of the set keys.
UnspentOver(w, keys) ==
  IF keys = {} THEN 0
  ELSE LET key == CHOOSE k \in keys : TRUE
           inputs == MapGet(w.subWallets, key).inputs
       IN UnspentAmount(inputs, Len(inputs)) + UnspentOver(w, keys \ {key})

\* C11: for every wallet state and currentHeight, the unlocked and locked
\* balances getBalance returns add up to the sum of the amounts of the unspent
\* inputs (spendHeight = 0) of the subwallets considered; a spent input adds
\* to neither part.
C11_BalancePartsSumToUnspent ==
  (call.op = "getBalance" /\ ~call.threw)
    => LET named == IF call.args[2] = Omitted THEN pre.publicSpendKeys ELSE call.args[2][1]
       IN NoRepeat(named)
            => /\ \A i \in 1..Len(named) : MapHas(pre.subWallets, named[i])
               /\ call.ret[1] + call.ret[2] = UnspentOver(pre, Range(named))

\* The balance of the whole wallet was asked for while one subwallet holds a
\* spent input and the other an unspent, locked one.
C11_Witness ==
  /\ call.op = "getBalance" /\ ~call.threw /\ call.args[2] = Omitted
  /\ Len(wallet.subWallets) = 2
  /\ \E s \in 1..2 : Some(wallet.subWallets[s][2].inputs, LAMBDA input : input.spendHeight # 0)
  /\ call.ret[1] = 0 /\ call.ret[2] > 0

\* C12: storeTransactionInput, markInputAsSpent, getTxInputKeyImage and
\* getBalance, given a public spend key that is no subwallet of the wallet,
\* throw 'Subwallet not found!' and leave the transactions, the
\* lockedTransactions and every subwallet unchanged.
C12_UnknownKeyThrowsAndChangesNothing ==
  LET unknown == IF call.op \in {"storeTransactionInput", "markInputAsSpent", "getTxInputKeyImage"}
                 THEN ~MapHas(pre.subWallets, call.args[1])
                 ELSE call.op = "getBalance" /\ call.args[2] # Omitted /\ \E i \in 1..Len(call.args[2][1]) : ~MapHas(pre.subWallets, call.args[2][1][i])
  IN unknown
       => /\ call.threw /\ call.error = "Subwallet not found!"
          /\ wallet.transactions = pre.transactions
          /\ wallet.lockedTransactions = pre.lockedTransactions
          /\ wallet.subWallets = pre.subWallets

\* An input was offered for a subwallet the wallet does not have, while the
\* one subwallet it has holds an input.
C12_Witness ==
  /\ call.op = "storeTransactionInput" /\ call.threw
  /\ call.args[1] = KeyB /\ ~MapHas(wallet.subWallets, KeyB)
  /\ Len(wallet.subWallets[1][2].inputs) = 1

\* C14: in a view wallet getTxInputKeyImage returns the key image of 64
\* zeroes for every known public spend key, derivation and output index.
C14_ViewWalletKeyImageIsZero ==
  (call.op = "getTxInputKeyImage" /\ pre.isViewWallet /\ MapHas(pre.subWallets, call.args[1]))
    => /\ ~call.threw
       /\ call.ret = "0000000000000000" \o "0000000000000000" \o "0000000000000000" \o "0000000000000000"

\* A view wallet that holds an input was asked for a key image.
C14_Witness ==
  /\ call.op = "getTxInputKeyImage" /\ ~call.threw
  /\ wallet.isViewWallet /\ call.args = <<KeyA, "d1", 0>>
  /\ Len(wallet.subWallets[1][2].inputs) >= 1

\* C13: in a view wallet getKeyImageOwner returns (false, '') for every key
\* image, whatever inputs the subwallets hold, so spend recognition marks no
\* input of a view wallet as spent.
C13_ViewWalletOwnsNoKeyImage ==
  /\ (call.op = "getKeyImageOwner" /\ pre.isViewWallet) => call.ret = <<FALSE, "">>
  /\ (call.op = "markSpentInput" /\ pre.isViewWallet) => (~call.threw /\ wallet = pre)
  /\ wallet.isViewWallet => \A s \in 1..Len(wallet.subWallets) : \A i \in 1..Len(wallet.subWallets[s][2].inputs) : wallet.subWallets[s][2].inputs[i].spendHeight = 0

\* A loaded view wallet that has the key image of zeroes in its set, and holds
\* an input stored after a fork, met a spent input with that key image.
C13_Witness ==
  /\ call.op = "markSpentInput" /\ call.args[1] = ZeroKeyImage
  /\ wallet.isViewWallet
  /\ Len(wallet.subWallets[1][2].inputs) = 1 /\ wallet.subWallets[1][2].inputs[1].blockHeight = 2
  /\ ZeroKeyImage \in wallet.subWallets[1][2].keyImages

SameTransaction(a, b) ==
  /\ a.hash = b.hash /\ a.fee = b.fee /\ a.blockHeight = b.blockHeight /\ a.timestamp = b.timestamp
  /\ a.paymentID = b.paymentID /\ a.unlockTime = b.unlockTime
  /\ a.isCoinbaseTransaction = b.isCoinbaseTransaction /\ a.transfers = b.transfers

SameTransactions(a, b) == Len(a) = Len(b) /\ \A i \in 1..Len(a) : SameTransaction(a[i], b[i])

\* C16: for every wallet state W, SubWallets.fromJSON(W.toJSON()) equals W:
\* the same public spend keys in order, subwallets, confirmed and locked
\* transactions field by field, private view key, view-wallet flag and
\* transaction private keys, and the same answer to every query.
C16_RoundTrip ==
  call.op = "fromJSON"
    => /\ wallet.publicSpendKeys = pre.publicSpendKeys
       /\ wallet.subWallets = pre.subWallets
       /\ SameTransactions(wallet.transactions, pre.transactions)
       /\ SameTransactions(wallet.lockedTransactions, pre.lockedTransactions)
       /\ wallet.privateViewKey = pre.privateViewKey
       /\ wallet.isViewWallet = pre.isViewWallet
       /\ wallet.transactionPrivateKeys = pre.transactionPrivateKeys
       /\ getLockedTransactionHashes(wallet) = getLockedTransactionHashes(pre)
       /\ \A keyImage \in SpentKeyImages : getKeyImageOwner(wallet, keyImage) = getKeyImageOwner(pre, keyImage)
       /\ \A currentHeight \in Heights, now \in Nows : getBalance(wallet, currentHeight, Omitted, now) = getBalance(pre, currentHeight, Omitted, now)
       /\ toJSON(wallet) = toJSON(pre)

\* A wallet with a confirmed coinbase transaction added in this run, locked
\* sends, an input, key images and a transaction private key was saved and loaded.
C16_Witness ==
  /\ call.op = "fromJSON"
  /\ Some(pre.transactions, LAMBDA tx : tx.isCoinbaseTransaction /\ tx.blockHeight = 2)
  /\ Len(pre.lockedTransactions) = 2 /\ Len(pre.transactionPrivateKeys) = 1
  /\ \E s \in 1..Len(pre.subWallets) : pre.subWallets[s][2].keyImages # {} /\ Len(pre.subWallets[s][2].inputs) = 1

\* C17: the sync and desync events strictly alternate, beginning with sync:
\* a desync is emitted only right after a sync, and a sync only first or
\* right after a desync.
C17_SyncDesyncAlternate ==
  /\ emitted.name = "desync" => emitted.prev = "sync"
  /\ emitted.name = "sync" => emitted.prev \in {"none", "desync"}

\* The wallet synced, fell behind and synced again.
C17_Witness == emitted.name = "sync" /\ emitted.prev = "desync" /\ emitted.w >= 1 /\ backend.synced

\* C18: with w the last known block height and n the daemon's network block
\* count when the rule is evaluated, sync(w, n) is emitted only when the wallet
\* was not synced and w + 1 >= n, desync(w, n) only when it was synced and
\* w + 1 < n, and the synced flag changes exactly with an emission: to true
\* with a sync, to false with a desync.
C18_EventRule ==
  [][LET w == backend.synchronizationStatus.lastKnownBlockHeight
         n == getNetworkBlockCount(daemon)
     IN /\ backend'.synced # backend.synced => emitted' # emitted
        /\ emitted' # emitted =>
             /\ emitted'.w = w /\ emitted'.n = n
             /\ emitted'.name = "sync" => (~backend.synced /\ w + 1 >= n /\ backend'.synced)
             /\ emitted'.name = "desync" => (backend.synced /\ w + 1 < n /\ ~backend'.synced)]_vars

\* A desync was emitted by a wallet two blocks behind the network.
C18_Witness ==
  /\ emitted.name = "desync" /\ emitted.was /\ ~emitted.now /\ ~backend.synced
  /\ emitted.w + 1 < emitted.n
  /\ emitted.n = getNetworkBlockCount(daemon)

\* C19: if the wallet is synced and from then on the wallet stays started and
\* every daemon request fails, a desync is eventually emitted.
C19_FailuresEventuallyDesync ==
  []((backend.synced /\ [](backend.started /\ network.offline)) => <>(~backend.synced))

\* C20: blocks are applied to the wallet only while it is started; stop()
\* empties the queue of fetched blocks; and the blocks fetched, after a restart
\* too, are the ones that follow the last block applied, in order.
C20_ProcessedOnlyWhileStarted ==
  [][LET status == backend'.synchronizationStatus
         resume == IF status.lastKnownBlockHashes = <<>> THEN 0 ELSE status.lastKnownBlockHeight + 1
     IN /\ (wallet' # wallet \/ status # backend.synchronizationStatus) => (backend.started /\ backend'.started)
        /\ (backend.started /\ ~backend'.started) => backend'.blocksToProcess = <<>>
        /\ ~backend'.started => backend'.blocksToProcess = <<>>
        /\ \A i \in 1..Len(backend'.blocksToProcess) : backend'.blocksToProcess[i].blockHeight = resume + i - 1
        /\ \A f \in backend'.fetches : ~f.cancelled => f.blockHashCheckpoints = getBlockCheckpoints(status)]_vars

\* A wallet stopped while a fetch was awaited and started again has fetched
\* anew and applied the block at height 2 and its transaction.
C20_Witness ==
  /\ backend.started /\ call.op = "processBlock"
  /\ \E f \in backend.fetches : f.cancelled /\ f.blockHashCheckpoints = <<>>
  /\ backend.synchronizationStatus.lastKnownBlockHeight = 2
  /\ Len(wallet.transactions) = 2

\* C21: the answer to a fetch that was started before stop() and arrives after
\* it is discarded: the step that receives it appends nothing to
\* blocksToProcess and applies nothing to the wallet, whether or not start()
\* was called again meanwhile.
C21_StaleFetchDiscarded ==
  [][\A f \in backend.fetches :
       (f.cancelled /\ f \notin backend'.fetches) =>
         /\ backend'.blocksToProcess = backend.blocksToProcess
         /\ backend'.synchronizationStatus = backend.synchronizationStatus
         /\ wallet' = wallet]_vars

\* The answer to a fetch started before stop() arrived with blocks after the
\* wallet was started again, and the queue is still empty.
C21_Witness ==
  /\ call.op = "getWalletSyncData" /\ ~call.threw
  /\ call.args[1].cancelled /\ Len(call.ret) >= 2
  /\ backend.started /\ backend.blocksToProcess = <<>>
  /\ backend.fetches = {}

\* C22: blocks are applied to the wallet in strictly ascending height: the
\* block a process step applies is higher than the block applied before it,
\* except that after a fork at height f, removeForkedTransactions(f), the next
\* block applied has height f.
C22_AppliedInAscendingHeight ==
  [][(backend.started /\ backend'.started /\ Len(backend'.blocksToProcess) = Len(backend.blocksToProcess) - 1) =>
       LET block == backend.blocksToProcess[1]
       IN /\ applied'.height = block.blockHeight
          /\ IF applied.forkHeight >= 0 THEN block.blockHeight = applied.forkHeight
             ELSE block.blockHeight > applied.height]_vars

\* After a fork at height 1 of a wallet that had applied the blocks up to
\* height 2, the blocks of the reorganised chain at heights 1 and 2 were
\* applied, across a stop and a start.
C22_Witness ==
  /\ call.op = "processBlock" /\ call.args[1].blockHash = "c2"
  /\ applied = [height |-> 2, forkHeight |-> -1]
  /\ network.reorg = 1
  /\ Len(wallet.transactions) = 2 /\ wallet.transactions[1].hash = "h2"
  /\ \E f \in backend.fetches : f.cancelled

\* A standard transaction of a block touches the wallet: one of its outputs or
\* one of its inputs is the wallet's.
TouchesWallet(w, block) ==
  \E i \in 1..Len(block.transactions) :
    ourOutputs(w, block.transactions[i], block.blockHeight) # <<>> \/ ourSpends(w, block.transactions[i]) # <<>>

\* C23: while coinbase scanning is off, processing a block whose only payment
\* to the wallet is in its coinbase transaction adds no transaction, stores no
\* input and leaves the balance as it was.
C23_CoinbaseSkippedByDefault ==
  (/\ call.op = "processRawBlock" /\ ~call.args[2]
   /\ underivePublicKey("d1", 0, call.args[1].coinbaseTX.outputs[1].key) \in Range(pre.publicSpendKeys)
   /\ ~TouchesWallet(pre, call.args[1]))
    => /\ ~call.threw
       /\ wallet.transactions = pre.transactions
       /\ wallet.lockedTransactions = pre.lockedTransactions
       /\ wallet.subWallets = pre.subWallets
       /\ \A currentHeight \in Heights, now \in Nows :
            getBalance(wallet, currentHeight, Omitted, now) = getBalance(pre, currentHeight, Omitted, now)

\* A block whose coinbase transaction pays the wallet was processed with
\* scanning off and never turned on: the wallet is empty, its balance (0, 0).
C23_Witness ==
  /\ call.op = "processRawBlock" /\ ~call.args[2] /\ ~backend.scanCoinbase
  /\ call.args[1].coinbaseTX.outputs[1].key = "okA" /\ call.args[1].transactions = <<RawForeign>>
  /\ wallet.transactions = <<>>
  /\ MapGet(wallet.subWallets, KeyA).inputs = <<>>
  /\ getBalance(wallet, 2, Omitted, UNLOCK_TIME_AS_BLOCK_HEIGHT_THRESHOLD).ret = <<0, 0>>

\* The fee answer of the init() call that has just run; call.before is the
\* fee cached when it was called.
InitFeeAnswer == call.args[2]

\* C24: nodeFee() returns ['', 0] whenever the most recent init() was answered
\* a fee amount of 0, also when an earlier init() was answered a positive fee.
C24_NoFeeAfterZeroAmount == (call.op = "init" /\ ~InitFeeAnswer.failed /\ InitFeeAnswer.status = "OK" /\ InitFeeAnswer.amount = 0) => nodeFee(daemon) = <<"", 0>>

\* The fee answers updateFeeInfo is documented to accept.
FeeAccepted(feeInfo) == ~feeInfo.failed /\ feeInfo.status = "OK" /\ feeInfo.address \in {"addrB", "addrX"} /\ feeInfo.amount > 0

\* C29: updateFeeInfo replaces the cached fee address and amount only when the
\* request succeeds with status 'OK', a valid address that is not integrated
\* and an amount above 0; on every other answer the previous values stay and
\* no error reaches the caller.
C29_FeeReplacedOnlyWhenValid ==
  call.op = "init" =>
    /\ ~call.threw
    /\ nodeFee(daemon) = IF FeeAccepted(InitFeeAnswer) THEN <<InitFeeAnswer.address, InitFeeAnswer.amount>> ELSE call.before

\* A positive fee with another status arrived while a fee was cached.
C29_Witness ==
  /\ call.op = "init" /\ call.before[2] > 0
  /\ ~InitFeeAnswer.failed /\ InitFeeAnswer.status # "OK" /\ InitFeeAnswer.amount > 0
  /\ InitFeeAnswer.address \in {"addrB", "addrX"} /\ InitFeeAnswer.address # call.before[1]

\* C30: after an updateDaemonInfo that succeeded, getNetworkBlockCount() is the
\* reported network_height less one when that is not zero and 0 when it is,
\* getLocalDaemonBlockCount() is the reported height, and the network count is
\* not negative.
C30_CountsAfterUpdate ==
  (call.op \in {"init", "updateDaemonInfo"} /\ ~call.args[1].failed) =>
    /\ getNetworkBlockCount(daemon) = IF call.args[1].network_height = 0 THEN 0 ELSE call.args[1].network_height - 1
    /\ getLocalDaemonBlockCount(daemon) = call.args[1].height
    /\ getNetworkBlockCount(daemon) >= 0

\* A daemon that has blocks but reports no network height has answered.
C30_Witness == call.op = "updateDaemonInfo" /\ ~call.args[1].failed /\ call.args[1].network_height = 0 /\ call.args[1].height > 0

ValidationHelpers == {"validateAddresses", "validateDestinations", "validateIntegratedAddresses", "validateOurAddresses", "validateAmount", "validateMixin", "validatePaymentID"}

\* C25: the validation helpers never throw: each of them returns a WalletError
\* for every input, an undecodable address and a subWalletsToTakeFrom entry
\* that is no subwallet of the wallet included.
C25_HelpersNeverThrow == call.op \in ValidationHelpers => ~call.threw

RECURSIVE ExactSum(_, _)
\* The sum of the first n destination amounts, as the integers have it.
ExactSum(destinations, n) == IF n = 0 THEN 0 ELSE ExactSum(destinations, n - 1) + destinations[n][2]

\* The total of the validateAmount call that has just run, as the integers
\* have it and as the sum of JavaScript numbers, and the balance of the
\* subwallets it was to take from.
CallTotal == ExactSum(call.args[1], Len(call.args[1])) + call.args[2]

CallTotalNumber == Plus(sumBy(call.args[1], Len(call.args[1])), call.args[2])

CallBalance == getBalance(wallet, call.args[4], Given(call.args[3]), call.args[5])

\* The fee of the call is an integer of at least config.minimumFee and the
\* subwallets to take from are the wallet's.
CallFeeValid == call.op = "validateAmount" /\ Number_isInteger(call.args[2]) /\ call.args[2] >= Num(minimumFee) /\ ~CallBalance.threw

\* C26: validateAmount returns SUCCESS whenever fee is an integer of at least
\* config.minimumFee and the destination amounts plus the fee are at most the
\* unlocked balance of the chosen subwallets and below 2^64 (the sum being the
\* number JavaScript computes), and it returns NON_INTEGER_GIVEN only for a
\* fee that is no integer.
C26_ValidAmountsSucceed ==
  /\ (CallFeeValid /\ CallTotalNumber <= Num(CallBalance.ret[1]) /\ CallTotalNumber < TwoPow64) => (~call.threw /\ call.ret = SUCCESS)
  /\ (call.op = "validateAmount" /\ ~call.threw /\ call.ret.errorCode = "NON_INTEGER_GIVEN") => ~Number_isInteger(call.args[2])

\* C27: a send whose destination amounts plus fee are exactly 2^64 - 1, from
\* subwallets that hold as much, is rejected by validateAmount with
\* WILL_OVERFLOW.
C27_MaxTotalOverflows == (CallFeeValid /\ CallTotal = TwoPow64 - Num(1) /\ CallTotal <= Num(CallBalance.ret[1])) => (~call.threw /\ call.ret.errorCode = "WILL_OVERFLOW")

\* The subwallets, by place in creation order, whose set of key images has k.
HaveKeyImage(w, k) == {n \in 1..Len(w.subWallets) : k \in w.subWallets[n][2].keyImages}

\* The key images of the inputs the subwallets hold.
HeldKeyImages(w) == UNION {{w.subWallets[n][2].inputs[i].keyImage : i \in 1..Len(w.subWallets[n][2].inputs)} : n \in 1..Len(w.subWallets)}

\* In a wallet that is no view wallet getKeyImageOwner(k) is (true, pk) exactly
\* when some subwallet has k, pk being the first such subwallet's key.
OwnerIsFirstHolder ==
  (call.op = "getKeyImageOwner" /\ ~pre.isViewWallet) =>
    LET have == HaveKeyImage(pre, call.args[1])
    IN IF have = {} THEN call.ret = <<FALSE, "">>
       ELSE \E n \in have : call.ret = <<TRUE, pre.subWallets[n][1]>> /\ \A other \in have : n <= other

\* C28: in a wallet that is no view wallet getKeyImageOwner(k) returns
\* (true, pk) if and only if some subwallet has key image k, pk being the key
\* of the first such subwallet in creation order, and (false, '') otherwise;
\* and once removeForkedTransactions has removed an input, its key image is no
\* longer reported as owned.
C28_OwnerIffHeld ==
  /\ OwnerIsFirstHolder
  /\ (call.op = "removeForkedTransactions" /\ ~wallet.isViewWallet) =>
       \A k \in HeldKeyImages(pre) \ HeldKeyImages(wallet) : getKeyImageOwner(wallet, k) = <<FALSE, "">>

\* The amount is a positive integer.
GoodAmount(amount) == amount > 0 /\ Number_isInteger(amount)

\* The code validateDestinations gives for an amount that is bad.
BadAmountCode(amount) == IF amount = 0 THEN "AMOUNT_IS_ZERO" ELSE IF amount < 0 THEN "NEGATIVE_VALUE_GIVEN" ELSE "NON_INTEGER_GIVEN"

\* C31: validateDestinations returns NO_DESTINATIONS_GIVEN for an empty list;
\* otherwise the code of the first destination whose amount is zero, negative
\* or no integer; and only when every amount is a positive integer the result
\* of validating the addresses with integrated ones allowed: SUCCESS exactly
\* when the list is not empty, all amounts are positive integers and all
\* addresses decode.
C31_DestinationsInOrder ==
  call.op = "validateDestinations" =>
    LET destinations == call.args[1]
        bad == {n \in 1..Len(destinations) : ~GoodAmount(destinations[n][2])}
    IN /\ ~call.threw
       /\ Len(destinations) = 0 => call.ret.errorCode = "NO_DESTINATIONS_GIVEN"
       /\ \A n \in bad : (\A m \in bad : n <= m) => call.ret.errorCode = BadAmountCode(destinations[n][2])
       /\ (Len(destinations) > 0 /\ bad = {}) => call.ret = validateAddresses([n \in 1..Len(destinations) |-> destinations[n][1]], TRUE).ret
       /\ call.ret = SUCCESS <=> (Len(destinations) > 0 /\ bad = {} /\ \A n \in 1..Len(destinations) : ~CryptoUtils_decodeAddress(destinations[n][1]).threw)

\* A list whose first address does not decode was refused for the amount of
\* its second destination, which is no integer.
C31_Witness ==
  /\ call.op = "validateDestinations" /\ Len(call.args[1]) = 2
  /\ call.args[1][1][1] = "bad" /\ GoodAmount(call.args[1][1][2])
  /\ call.ret.errorCode = "NON_INTEGER_GIVEN"

\* The payment IDs embedded in the integrated addresses among the destinations.
EmbeddedPaymentIDs(destinations) == {CryptoUtils_decodeAddress(destinations[n][1]).paymentId : n \in {m \in 1..Len(destinations) : destinations[m][1] \in {"intA", "intB"}}}

\* Two integrated addresses embed different payment IDs, or one embeds another
\* than the explicit payment ID, which is not empty.
Conflicting(destinations, paymentID) ==
  \/ Cardinality(EmbeddedPaymentIDs(destinations)) >= 2
  \/ paymentID # "" /\ \E embedded \in EmbeddedPaymentIDs(destinations) : embedded # paymentID

Reversed(array) == [n \in 1..Len(array) |-> array[Len(array) + 1 - n]]

\* The answer of validateIntegratedAddresses follows the embedded payment IDs
\* and is the same for the destinations in the opposite order.
ConflictExactly ==
  /\ ~call.threw
  /\ call.ret = IF Conflicting(call.args[1], call.args[2]) THEN WalletError("CONFLICTING_PAYMENT_IDS", "") ELSE SUCCESS
  /\ validateIntegratedAddresses(Reversed(call.args[1]), call.args[2]) = validateIntegratedAddresses(call.args[1], call.args[2])

\* C32: validateIntegratedAddresses returns CONFLICTING_PAYMENT_IDS exactly
\* when two integrated destination addresses embed different payment IDs or an
\* integrated address embeds a payment ID different from an explicit paymentID
\* that is not empty, and SUCCESS otherwise; the order of the destinations
\* does not change the result.
C32_ConflictingPaymentIDs == call.op = "validateIntegratedAddresses" => ConflictExactly

\* The same for destinations that all decode.
ConflictExactlyForAddresses == (call.op = "validateIntegratedAddresses" /\ \A n \in 1..Len(call.args[1]) : ~CryptoUtils_decodeAddress(call.args[1][n][1]).threw) => ConflictExactly

\* C33: init() runs the update of the daemon info and that of the fee
\* concurrently: the values cached once both are done (block counts, peer
\* count, hashrate, fee address and amount) do not depend on which response
\* arrived first, init() ends without error when one or both requests fail,
\* and the fields of a failed request keep their previous values.
C33_InitOrderAndFailures ==
  (call.op = "init" /\ call.pending = {}) =>
    /\ ~call.threw
    /\ daemon = updateFeeInfo(updateDaemonInfo(call.before, call.args[1]), call.args[2])
    /\ daemon = updateDaemonInfo(updateFeeInfo(call.before, call.args[2]), call.args[1])
    /\ call.args[1].failed =>
         /\ daemon.localDaemonBlockCount = call.before.localDaemonBlockCount
         /\ daemon.networkBlockCount = call.before.networkBlockCount
         /\ daemon.peerCount = call.before.peerCount
         /\ daemon.lastKnownHashrate = call.before.lastKnownHashrate
    /\ ~call.args[1].failed =>
         /\ daemon.localDaemonBlockCount = call.args[1].height
         /\ daemon.peerCount = call.args[1].incoming_connections_count + call.args[1].outgoing_connections_count
         /\ daemon.lastKnownHashrate * blockTargetTime = call.args[1].difficulty
    /\ call.args[2].failed => nodeFee(daemon) = nodeFee(call.before)

\* An init() whose info request failed and whose fee answer came first and
\* was taken has ended, on a daemon that had heights, peers and a fee cached.
C33_Witness ==
  /\ call.op = "init" /\ call.pending = {} /\ call.first = "fee"
  /\ call.args[1].failed /\ call.before.peerCount > 0 /\ call.before.localDaemonBlockCount > 0
  /\ call.before.feeAmount > 0 /\ nodeFee(daemon) # nodeFee(call.before)

\* The pair is the initial one, or a valid address that is not integrated with
\* an amount above 0.
ValidFee(fee) == fee = <<"", 0>> \/ (fee[1] \in {"addrA", "addrB", "addrX"} /\ fee[2] > 0)

\* C36: in every reachable state of a ConventionalDaemon the cached node fee is
\* the initial pair ('', 0) or an address that is valid and not integrated
\* with an amount above 0; address and amount change only together, to the
\* pair of one answer, so nodeFee() never returns an address with amount 0 or
\* a positive amount with an empty address.
C36_FeePairValid ==
  [][/\ ValidFee(nodeFee(daemon'))
     /\ nodeFee(daemon') # nodeFee(daemon) => (call'.op = "init" /\ nodeFee(daemon') = <<call'.args[2].address, call'.args[2].amount>>)]_vars

\* A cached fee has been replaced by the fee of another address.
C36_Witness == call.op = "init" /\ call.before[2] > 0 /\ daemon.feeAmount > 0 /\ daemon.feeAddress # call.before[1]

\* The lists that name subwallets of the wallet, none of them twice.
ListSubsets(w) == SeqsUpTo(Range(w.publicSpendKeys), Len(w.publicSpendKeys))

ForkHeights == 0..(MaxHeight + 1)

Min(a, b) == IF a <= b THEN a ELSE b

\* C37: removing forked transactions at h1 and then at h2 leaves the confirmed
\* transactions that one removal at min(h1, h2) leaves, and removing twice at
\* the same height leaves what removing once leaves.
C37_ForkRemovalComposes ==
  LET once == [h \in ForkHeights |-> removeForkedTransactions(wallet, h)]
  IN /\ \A h1, h2 \in ForkHeights :
          removeForkedTransactions(once[h1], h2).transactions = once[Min(h1, h2)].transactions
     /\ \A h \in ForkHeights :
          removeForkedTransactions(once[h], h).transactions = once[h].transactions

\* A fork removal dropped some confirmed transactions and kept others, and a
\* removal at a lower height would drop more of them.
C37_Witness ==
  /\ call.op = "removeForkedTransactions"
  /\ Len(wallet.transactions) >= 1
  /\ Len(wallet.transactions) < Len(pre.transactions)
  /\ \E h2 \in ForkHeights :
       /\ h2 < call.args[1]
       /\ Len(removeForkedTransactions(wallet, h2).transactions) < Len(wallet.transactions)

\* A wallet just created or imported whose daemon is unreachable.
InitOffline ==
  /\ wallet \in {NewSubWallets("addrA", 0, TRUE, "view", "spendA"), NewSubWallets("addrA", 0, FALSE, "view", Undefined)}
  /\ pre = wallet /\ call = NoCall /\ reapply = NoReapply
  /\ daemon = NewConventionalDaemon /\ backend = NewWalletBackend /\ emitted = NoEvent /\ applied = NoBlock
  /\ network \in {[NewNetwork EXCEPT !.network_height = h, !.offline = TRUE] : h \in {0, 1}}

NextOffline == Start \/ Stop \/ UpdateDaemonInfo \/ FetchBlocks \/ StoreBlocks \/ SyncEvents \/ MineBlock

\* The backend while the daemon stays unreachable: every info() request fails.
SpecOffline == InitOffline /\ [][NextOffline]_vars

\* C38: while no info() request has succeeded, the network block count being
\* at its initial 0, no sync event is emitted and the wallet is not synced.
C38_NoSyncBeforeInfo ==
  getNetworkBlockCount(daemon) = 0 => (~backend.synced /\ emitted.name # "sync")

====
